---- MODULE Spec2Model ----
(***************************************************************************)
(* Earth-scope dashboard: the backend request handlers (one per            *)
(* environmental parameter, per-point and nation-wide), their synthetic    *)
(* time series, statistics and responses.                                  *)
(*                                                                         *)
(* Numbers are fixed point:                                                *)
(*   - coordinates in 1e-5 degree,                                         *)
(*   - NDVI, aerosol index, SO2 and CO in 1e-5 while they are computed and *)
(*     in 1e-4 once rounded by toFixed(4),                                 *)
(*   - NO2 in 1e10 molecules/cm2, rounded by toExponential(4),             *)
(*   - a draw of a random source in 1e-4 (0..9999 stands for [0,1)),       *)
(*   - sines in 1e-4, trend percentages in 0.01 % while they are computed  *)
(*     and in 0.1 % once rounded by toFixed(1).                            *)
(***************************************************************************)
EXTENDS Integers, Sequences, FiniteSets, TLC

VARIABLES req, resp, first, steps, pc,          \* one exchange with a request handler
          panel, drawnShape, calls, toast, download,  \* the dashboard: ControlPanel and its page
          table, mongo, answer,               \* the stores of analysis records and the last reply
          widget,                             \* the nation-wide widget of the control panel
          conn,                               \* the module state of the mongodb function
          drawnItems                          \* the map: the layers of its feature group

vars == <<req, resp, first, steps, pc, panel, drawnShape, calls, toast, download, table, mongo, answer,
          widget, conn, drawnItems>>

\* the state of the dashboard
clientVars == <<panel, drawnShape, drawnItems, calls, toast, download>>

\* the state of the record stores
storeVars == <<table, mongo, answer>>

\* the widget and the connection, which the handlers, the form and the stores leave alone
asideVars == <<widget, conn>>

(***************************************************************************)
(* Bounds of the model                                                     *)
(***************************************************************************)
\* last year a request may name (the first one is 2019)
MaxYear == 2020
\* number of backend invocations the control panel makes before it is closed
MaxCalls == 2
\* number of writes the record stores take
MaxWrites == 2

\* the saves of a session of the dashboard
MaxSaves == 1

\* the requests the nation-wide widget makes in a session
MaxFetches == 3

\* the requests one instance of the mongodb function receives
MaxRequests == 3

\* number of distinct outcomes of the ambient random source, minus one
MaxEntropy == 2

(***************************************************************************)
(* Arithmetic helpers                                                      *)
(***************************************************************************)
Abs(x) == IF x < 0 THEN -x ELSE x

Max2(a, b) == IF a > b THEN a ELSE b

Min2(a, b) == IF a < b THEN a ELSE b

\* a / b rounded to the nearest integer, halves upwards (b > 0)
RoundDiv(a, b) == (a + (b \div 2)) \div b

\* a * b / c rounded, without forming a * b when a is large (b, c > 0)
MulDiv(a, b, c) == (a \div c) * b + RoundDiv((a % c) * b, c)

RECURSIVE SqrtSearch(_, _, _)
SqrtSearch(x, lo, hi) ==
  IF lo >= hi THEN lo
  ELSE LET mid == (lo + hi + 1) \div 2
       IN IF mid * mid <= x THEN SqrtSearch(x, mid, hi) ELSE SqrtSearch(x, lo, mid - 1)

\* Math.sqrt on non-negative fixed-point input, rounded down
Sqrt(x) == SqrtSearch(x, 0, 46340)

\* folds over s[lo..hi], by halves
RECURSIVE SumRange(_, _, _)
SumRange(s, lo, hi) ==
  IF lo > hi THEN 0
  ELSE IF lo = hi THEN s[lo]
  ELSE SumRange(s, lo, (lo + hi) \div 2) + SumRange(s, ((lo + hi) \div 2) + 1, hi)

SumSeq(s) == SumRange(s, 1, Len(s))

RECURSIVE MinRange(_, _, _)
MinRange(s, lo, hi) ==
  IF lo = hi THEN s[lo]
  ELSE Min2(MinRange(s, lo, (lo + hi) \div 2), MinRange(s, ((lo + hi) \div 2) + 1, hi))

MinSeq(s) == MinRange(s, 1, Len(s))

RECURSIVE MaxRange(_, _, _)
MaxRange(s, lo, hi) ==
  IF lo = hi THEN s[lo]
  ELSE Max2(MaxRange(s, lo, (lo + hi) \div 2), MaxRange(s, ((lo + hi) \div 2) + 1, hi))

MaxSeq(s) == MaxRange(s, 1, Len(s))

\* Math.sin of a multiple of 15 degrees, in 1e-4
SinTable ==
  << 0, 2588, 5000, 7071, 8660, 9659, 10000, 9659, 8660, 7071, 5000, 2588,
     0, -2588, -5000, -7071, -8660, -9659, -10000, -9659, -8660, -7071, -5000, -2588 >>

Sin(deg) == SinTable[((deg % 360) \div 15) + 1]

\* monthRadians = ((month - 1) / 12) * 2 * Math.PI, in degrees
monthRadians(month) == 30 * (month - 1)

\* Number(x.toFixed(4)) of a value held in 1e-5: the result is in 1e-4
toFixed4(x) == IF x < 0 THEN -RoundDiv(-x, 10) ELSE RoundDiv(x, 10)

\* Number(x.toFixed(1)) of a percentage held in 0.01 %: the result is in 0.1 %
toFixed1(x) == IF x < 0 THEN -RoundDiv(-x, 10) ELSE RoundDiv(x, 10)

\* Number(x.toExponential(4)) of x > 0 in 1e10: five significant digits are kept
RECURSIVE Magnitude(_)
Magnitude(x) == IF x < 100000 THEN 1 ELSE 10 * Magnitude(x \div 10)

toExponential4(x) == RoundDiv(x, Magnitude(x)) * Magnitude(x)

(***************************************************************************)
(* JavaScript numbers that may be NaN or infinite (the statistics)         *)
(***************************************************************************)
Finite(v) == [k |-> "finite", v |-> v]

NaN == [k |-> "NaN", v |-> 0]

PosInfinity == [k |-> "Infinity", v |-> 0]

NegInfinity == [k |-> "-Infinity", v |-> 0]

(***************************************************************************)
(* JSON values of a request body                                           *)
(***************************************************************************)
Num(v) == [t |-> "number", v |-> v]

Undefined == [t |-> "undefined", v |-> 0]

Str == [t |-> "string", v |-> 0]

\* const { startYear = 2019, endYear = 2025 } = await req.json()
Default(x, d) == IF x.t = "undefined" THEN d ELSE x.v

(***************************************************************************)
(* Geo-bounds validator: one copy per file                                 *)
(***************************************************************************)
\* get-ndvi
PAKISTAN_BOUNDS_ndvi == [minLat |-> 2350000, maxLat |-> 3710000, minLon |-> 6090000, maxLon |-> 7750000]

isInsidePakistan_ndvi(lat, lon) ==
  lat >= PAKISTAN_BOUNDS_ndvi.minLat /\ lat <= PAKISTAN_BOUNDS_ndvi.maxLat
    /\ lon >= PAKISTAN_BOUNDS_ndvi.minLon /\ lon <= PAKISTAN_BOUNDS_ndvi.maxLon

\* get-aerosol-index
PAKISTAN_BOUNDS_aerosol == [minLat |-> 2350000, maxLat |-> 3710000, minLon |-> 6090000, maxLon |-> 7750000]

isInsidePakistan_aerosol(lat, lon) ==
  lat >= PAKISTAN_BOUNDS_aerosol.minLat /\ lat <= PAKISTAN_BOUNDS_aerosol.maxLat
    /\ lon >= PAKISTAN_BOUNDS_aerosol.minLon /\ lon <= PAKISTAN_BOUNDS_aerosol.maxLon

\* the vegetation handler that queries NASA CMR
PAKISTAN_BOUNDS_modis == [minLat |-> 2350000, maxLat |-> 3710000, minLon |-> 6090000, maxLon |-> 7750000]

isInsidePakistan_modis(lat, lon) ==
  lat >= PAKISTAN_BOUNDS_modis.minLat /\ lat <= PAKISTAN_BOUNDS_modis.maxLat
    /\ lon >= PAKISTAN_BOUNDS_modis.minLon /\ lon <= PAKISTAN_BOUNDS_modis.maxLon

\* get-so2
PAKISTAN_BOUNDS_so2 == [minLat |-> 2350000, maxLat |-> 3710000, minLon |-> 6090000, maxLon |-> 7750000]

isInsidePakistan_so2(lat, lon) ==
  lat >= PAKISTAN_BOUNDS_so2.minLat /\ lat <= PAKISTAN_BOUNDS_so2.maxLat
    /\ lon >= PAKISTAN_BOUNDS_so2.minLon /\ lon <= PAKISTAN_BOUNDS_so2.maxLon

\* get-co
PAKISTAN_BOUNDS_co == [minLat |-> 2350000, maxLat |-> 3710000, minLon |-> 6090000, maxLon |-> 7750000]

isInsidePakistan_co(lat, lon) ==
  lat >= PAKISTAN_BOUNDS_co.minLat /\ lat <= PAKISTAN_BOUNDS_co.maxLat
    /\ lon >= PAKISTAN_BOUNDS_co.minLon /\ lon <= PAKISTAN_BOUNDS_co.maxLon

\* get-co, the version drawing Math.random
PAKISTAN_BOUNDS_co_random == [minLat |-> 2350000, maxLat |-> 3710000, minLon |-> 6090000, maxLon |-> 7750000]

isInsidePakistan_co_random(lat, lon) ==
  lat >= PAKISTAN_BOUNDS_co_random.minLat /\ lat <= PAKISTAN_BOUNDS_co_random.maxLat
    /\ lon >= PAKISTAN_BOUNDS_co_random.minLon /\ lon <= PAKISTAN_BOUNDS_co_random.maxLon

\* get-no2
PAKISTAN_BOUNDS_no2 == [minLat |-> 2350000, maxLat |-> 3710000, minLon |-> 6090000, maxLon |-> 7750000]

isInsidePakistan_no2(lat, lon) ==
  lat >= PAKISTAN_BOUNDS_no2.minLat /\ lat <= PAKISTAN_BOUNDS_no2.maxLat
    /\ lon >= PAKISTAN_BOUNDS_no2.minLon /\ lon <= PAKISTAN_BOUNDS_no2.maxLon

\* get-no2, the version drawing Math.random
PAKISTAN_BOUNDS_no2_random == [minLat |-> 2350000, maxLat |-> 3710000, minLon |-> 6090000, maxLon |-> 7750000]

isInsidePakistan_no2_random(lat, lon) ==
  lat >= PAKISTAN_BOUNDS_no2_random.minLat /\ lat <= PAKISTAN_BOUNDS_no2_random.maxLat
    /\ lon >= PAKISTAN_BOUNDS_no2_random.minLon /\ lon <= PAKISTAN_BOUNDS_no2_random.maxLon

\* the control panel
PAKISTAN_BOUNDS_panel == [minLat |-> 2350000, maxLat |-> 3710000, minLon |-> 6090000, maxLon |-> 7750000]

\* a validator whose northern border is exclusive
isInsidePakistan_panel_exclusive(lat, lon) ==
  lat >= PAKISTAN_BOUNDS_panel.minLat /\ lat < PAKISTAN_BOUNDS_panel.maxLat
    /\ lon >= PAKISTAN_BOUNDS_panel.minLon /\ lon <= PAKISTAN_BOUNDS_panel.maxLon

isInsidePakistan_panel(lat, lon) ==
  lat >= PAKISTAN_BOUNDS_panel.minLat /\ lat <= PAKISTAN_BOUNDS_panel.maxLat
    /\ lon >= PAKISTAN_BOUNDS_panel.minLon /\ lon <= PAKISTAN_BOUNDS_panel.maxLon

\* the map component
PAKISTAN_BOUNDS_OBJ == [minLat |-> 2350000, maxLat |-> 3710000, minLon |-> 6090000, maxLon |-> 7750000]

isPointInsidePakistan(lat, lon) ==
  lat >= PAKISTAN_BOUNDS_OBJ.minLat /\ lat <= PAKISTAN_BOUNDS_OBJ.maxLat
    /\ lon >= PAKISTAN_BOUNDS_OBJ.minLon /\ lon <= PAKISTAN_BOUNDS_OBJ.maxLon

(***************************************************************************)
(* Noise sources                                                           *)
(***************************************************************************)
\* A seed s stands for the integer s.q * 100000 + s.r, 0 <= s.r < 100000.
Seed(q, r) == [q |-> q + (r \div 100000), r |-> r % 100000]

SeedPlus(s, k) == Seed(s.q, s.r + k)

\* Math.round(lat * 10000) + Math.round(lon * 10000) * 100000
locationSeed(lat, lon) == Seed(RoundDiv(lon, 10), RoundDiv(lat, 10))

\* floor(10000 * seededRandom(seed)) for every seed the model draws, blocks of
\* consecutive seeds starting at q * 100000 + lo
SeededRandomRows ==
  {
    [q |-> 0, lo |-> 26296, vals |-> <<
         3540, 7842, 4052, 7806, 2617, 1738, 9899, 1965, 4143, 1749, 4556, 4715, 5178, 9589, 7202,
         7605, 8307, 4488, 1015, 544, 1745, 1034, 9061, 4022, 4997, 7419, 7255, 4144, 5318, 6187,
         4868, 6827, 5921, 941, 5885, 1418, 6712, 713, 7219, 8797, 3687, 2126, 5978, 178, 9748,
         9841, 6649, 3975, 6885, 8490, 7963, 6962, 9451, 1567, 6472, 2926, 7033, 3712, 4483, 5378,
         7457, 1368, 6558, 4938, 5943, 913, 7827, 9707, 185, 9576, 1929, 5382, 7516, 121, 8049,
         4042, 8996, 1742, 4161, 1192, 1140, 9040, 2542, 6944, 2682, 2552, 501, 9601, 6583, 338,
         4849, 2383, 1851, 5233, 9731, 6684, 2300, 3070, 7626, 7119, 2816, 5452, 5658, 4814, 9092,
         6678, 4352, 1934, 7464, 1642, 4800, 8290, 4177, 5512, 659, 2775, 6612, 5980, 6275, 4011,
         561, 943, 7619, 7148, 4330, 5216, 9034, 4996, 4236, 4327, 9858, 3459, 6198, 9546, 2,
         4242, 1569, 8770, 1526, 2691, 2448, 5885, 124, 2523, 7577, 96, 4168, 7092, 8325, 9202,
         8091, 8274, 9607, 5901, 6956, 3017, 6779, 9752, 4816, 3956, 6545, 677, 4855, 9496, 8045,
         3249, 9347, 6542, 1182, 7049, 7568, 3151, 6078, 3124, 747, 1032, 1817, 7255, 7606, 8574,
         917, 5751, 3482, 6602, 4971, 6610, 4132, 1683, 4273, 8623, 6351, 8536, 7273, 9742, 627,
         225, 6232, 9622, 1372, 7285, 3627, 1566, 7655, 2357, 7625, 2119, 8056, 867, 9089, 4649,
         2503, 4904, 4834, 4260>>],
    [q |-> 609002, lo |-> 61254, vals |-> <<
         3074, 6578, 2861, 8784, 6393, 6603, 6688, 3483, 2657, 8397, 5693, 2369, 2952, 1853, 343,
         62, 6246, 7804, 7701, 7399, 6097, 7465, 4274, 8658, 8355, 5854, 6492, 781, 9086, 2405,
         4051, 1881, 7055, 9044, 299, 4214, 7410, 2186, 6967, 3543, 9319, 5633, 1519, 2856, 6048,
         5378, 8982, 1797, 1502, 940, 1664, 8742, 7890, 9935, 5474, 9582, 1188, 9388, 2849, 4722,
         850, 1227, 6392, 121, 8453, 7064, 4006, 4737, 1169, 5012, 6641, 3112, 7248, 3254, 4863,
         8060, 7411, 7621, 6624, 1933, 8799, 4422, 679, 9172, 4581, 2808, 1379, 7819, 9376, 5605,
         7085, 5184, 6908, 7709, 7488, 1546, 5881, 5109, 9590, 6148, 1263, 5425, 6153, 8702, 3467,
         4513, 889, 9273, 7432, 3678, 1093, 5177, 8636, 1983, 2399, 1946, 6369, 90, 3069, 8311,
         6336, 4473, 4574, 7386, 4172, 4086, 2290, 7342, 6670, 162, 6754, 3345, 4185, 4739, 8671,
         1171, 8615, 812, 8405, 9341, 2106, 1832, 7688, 3873, 5786, 3441, 5307, 283, 8445, 5960,
         2153, 9970, 5297, 4615, 5406, 1137, 2328>>],
    [q |-> 671002, lo |-> 75254, vals |-> <<
         3167, 2563, 8410, 1577, 8477, 2855, 8093, 7728, 7739, 6296, 4534, 6742, 9316, 1672, 6531,
         4635, 2951, 467, 154, 3043, 9661, 2804, 2904, 6807, 4975, 2547, 6011, 579, 7408, 9418,
         8765, 579, 9064, 7224, 3771, 6373, 7445, 8175, 9261, 5461, 2062, 9893, 7687, 3161, 2879,
         5899, 7426, 3361, 5473, 1212, 9767, 572, 8664, 4860, 2258, 910, 6130, 6245, 5804, 6714,
         2094, 2442, 1892, 2561, 1863, 1192, 3731, 6932, 11, 2012, 9256, 5325, 7266, 6505, 1650,
         6532, 408, 5523, 7855, 7152, 1465, 9043, 4685, 6933, 1571, 6720, 6340, 2120, 9095, 2182,
         8934, 3418, 4047, 4087, 1577, 1543, 1704, 6823, 3488, 7153, 1871, 8268, 5255, 8207, 1616,
         793, 6684, 9729, 793, 2117, 487, 3412, 8211, 9537, 1636, 4259, 1462, 934, 769, 7127,
         4990, 8667, 2821, 8317, 1582, 1735, 6220, 532, 3172, 2240, 5588, 3849, 8991, 4790, 1396,
         3013, 1145, 8616, 7762, 7513, 2486, 8771, 6631, 9198, 1021, 7887, 6422, 5276, 4295, 3005,
         5890, 3248, 5650, 1784, 396, 6153, 2239>>],
    [q |-> 693454, lo |-> 30007, vals |-> <<
         2017, 769, 2540, 2143, 9998, 5170, 829, 8999, 6560, 6202, 382, 2227, 3834, 7369, 7783,
         1313, 37, 8980, 6074, 8012, 9751, 2400, 2528, 3098, 6439, 6411, 435, 1661, 5117, 8828,
         207, 1480, 8423, 9266, 6212, 380, 1830, 7242, 3757, 8407, 1834, 9657, 1315, 5804, 7342,
         3137, 4032, 5927, 2057, 6506, 4716, 7123, 1002, 2649, 73, 4594, 6851, 7919, 82, 2884,
         8940, 4065, 7280, 9739, 4648, 4665, 101, 3422, 7891, 7297, 4596, 670, 9945, 7014, 1308,
         3259, 3594, 2642, 5546, 9504, 1775, 7125, 8789, 4416, 295, 285, 7145, 5785, 3103, 9261,
         568, 3615, 3607, 1886, 1853, 5650, 569, 3058, 618, 6328, 1070, 322, 4190, 9372, 6222,
         9257, 3684, 4671, 8145, 462, 3378, 7430, 329, 6820, 3645, 1010, 6308, 833, 5736, 1422,
         7588, 5120, 1814, 4178, 4363, 812, 8260, 1754, 3440, 8966, 3800, 3570, 8434, 1399, 8617,
         8560, 9362, 7645, 1307, 2853, 2117, 2961, 9978, 8434, 6649, 4153, 9435, 8720, 9381, 2842,
         2639, 3468, 6232, 5238, 8699, 7488, 8303>>],
    [q |-> 693454, lo |-> 76254, vals |-> <<
         8500, 3635, 3453, 4983, 879, 1354, 2806, 6995, 7729, 5317, 1271, 1554, 9576, 4404, 4656,
         3626, 3250, 6843, 8636, 9171, 3945, 2806, 3731, 3124, 3225, 6019, 242, 8710, 333, 8126,
         6473, 7632, 5818, 967, 6798, 8581, 3538, 2696, 2996, 1972, 8809, 6273, 5733, 7753, 5586,
         1359, 2899, 8905, 6804, 496, 907, 8970, 3373, 3307, 9804, 4396, 8084, 7442, 1932, 3483,
         2724, 5964, 8632, 7453, 9666, 7734, 8852, 8414, 8555, 718, 4219, 7494, 1403, 18, 5387,
         1415, 4964, 1928, 6845, 1987, 5353, 3801, 1575, 830, 7183, 5476, 6178, 8097, 6974, 7072,
         6088, 5124, 9038, 9718, 5271, 9954, 2257, 7030, 9112, 5757, 6389, 1704, 3680, 6512, 9868,
         4883, 2959, 8842, 3428, 7823, 6221, 3779, 5385, 1043, 1194, 297, 8047, 3648, 90, 3050,
         5554, 1588, 4038, 3146, 9468, 6226, 7282, 1566, 9264, 1220, 4356, 5369, 9521, 2654, 4910,
         2699, 426, 2713, 1115, 2111, 2600, 5360, 1714, 9404, 7741, 9744, 7240, 7210, 5805, 5502,
         261, 1800, 497, 3233, 8184, 7384, 7487>>],
    [q |-> 727103, lo |-> 59354, vals |-> <<
         3701, 2861, 6002, 9409, 364, 143, 9407, 1498, 3620, 7429, 9660, 4409, 3580, 5665, 6957,
         6868, 5668, 8789, 2734, 6445, 286, 375, 1363, 1180, 2390, 8857, 7438, 5989, 2591, 6505,
         5717, 906, 9122, 5949, 6895, 5971, 4570, 3328, 3196, 7377, 6093, 6148, 6627, 9970, 704,
         8069, 6919, 1038, 4550, 8829, 1557, 6244, 3646, 3242, 4048, 5008, 4342, 9348, 6652, 631,
         2250, 1337, 9949, 5765, 7159, 6646, 6698, 8490, 9502, 2551, 8318, 1566, 5304, 7544, 265,
         2836, 3848, 8696, 3094, 4361, 9907, 7072, 9478, 8582, 3596, 3431, 5652, 199, 7423, 5832,
         7165, 7992, 2239, 8887, 7381, 8283, 1974, 3232, 2482, 6734, 241, 4461, 3353, 8467, 1848,
         7242, 2680, 8029, 8260, 6841, 9285, 6615, 2587, 7334, 7224, 156, 7635, 4824, 4746, 5925,
         4451, 4585, 9705, 5498, 3737, 6872, 6707, 3852, 1927, 3760, 5890, 8502, 4473, 2976, 1611,
         7237, 9767, 5347, 9787, 120, 3760, 8497, 6655, 9782, 1073, 1094, 6685, 9547, 8309, 4780,
         8217, 4698, 6015, 5937, 2346, 8285, 7335>>],
    [q |-> 740003, lo |-> 76254, vals |-> <<
         4423, 2294, 2796, 5991, 573, 6063, 113, 2807, 6893, 4042, 4721, 4292, 6095, 6811, 8947,
         3191, 4501, 516, 2867, 450, 227, 3491, 7334, 4097, 7765, 4991, 1744, 370, 2266, 6397,
         1180, 9777, 6345, 8068, 7062, 1224, 1958, 2537, 4871, 1850, 7820, 3033, 2960, 8942, 6867,
         1653, 5260, 7182, 462, 6779, 384, 3144, 7014, 6940, 7211, 6037, 1767, 4470, 8819, 1155,
         9111, 9989, 8342, 2283, 8121, 4140, 1600, 4566, 9720, 4952, 4238, 3447, 6781, 5193, 9623,
         5724, 4880, 7631, 2944, 8146, 6002, 3397, 2171, 5892, 1739, 551, 1731, 3827, 8267, 714,
         4642, 9714, 4351, 4603, 4492, 8386, 2278, 3312, 5466, 2635, 392, 2272, 3162, 1551, 7902,
         8991, 6647, 6244, 4316, 3890, 3490, 944, 8447, 6960, 1986, 2132, 4967, 2780, 4592, 4463,
         4170, 5601, 52, 1055, 6761, 7572, 7366, 3074, 6068, 4338, 2668, 6112, 7821, 4063, 2239,
         5077, 3978, 7280, 8519, 3502, 9219, 2345, 1601, 6210, 8435, 4412, 4934, 5550, 1716, 1945,
         4056, 4166, 1242, 7725, 5357, 5344, 370>>],
    [q |-> 743003, lo |-> 41254, vals |-> <<
         999, 8572, 4654, 5899, 3171, 9068, 4287, 7747, 4479, 1287, 8151, 531, 7805, 8729, 270,
         7313, 6969, 8715, 4458, 2134, 4565, 3211, 2660, 5975, 1514, 6182, 8924, 8094, 9952, 8762,
         469, 6623, 8987, 7774, 7052, 5448, 143, 6120, 826, 1021, 6091, 774, 6552, 4262, 7033,
         4881, 621, 3023, 6941, 8764, 1660, 5669, 5123, 5579, 1603, 4253, 352, 9036, 8158, 1845,
         7406, 1312, 4467, 1864, 907, 3332, 9335, 4392, 4336, 120, 3559, 7703, 4354, 3259, 5089,
         1888, 7569, 9321, 5331, 3446, 351, 4843, 4552, 9908, 4290, 9690, 5056, 4053, 1001, 1682,
         8013, 2730, 4832, 1955, 8651, 6506, 1797, 8818, 1200, 4688, 6778, 1358, 4964, 9548, 8312,
         2103, 7800, 3847, 5779, 2327, 6877, 723, 4718, 2833, 3408, 6249, 3070, 9366, 4591, 4462,
         8545, 815, 3868, 1961, 4076, 8709, 7618, 5605, 7485, 957, 2015, 1626, 2184, 7083, 450,
         9250, 1453, 2790, 4310, 1681, 7521, 3142, 9440, 8351, 2662, 7638, 4589, 1149, 4912, 6500,
         5299, 5350, 5411, 5918, 844, 3637, 7040>>],
    [q |-> 775003, lo |-> 97254, vals |-> <<
         901, 2450, 1845, 2292, 5562, 6986, 9998, 3045, 7652, 2792, 8151, 6639, 9603, 8644, 3641,
         3697, 7605, 212, 8843, 5114, 7453, 7296, 7499, 9857, 961, 8408, 8624, 7266, 5278, 8105,
         8705, 4662, 5483, 5720, 7704, 1217, 2813, 4257, 7169, 1584, 1810, 8979, 3504, 6024, 4049,
         2223, 9930, 1237, 4724, 5369, 6669, 488, 1509, 558, 179, 1522, 9733, 8260, 8152, 9278,
         3188, 9432, 9444, 9116, 6279, 9208, 1981, 5382, 7660, 3125, 1275, 6053, 7251, 1490, 2532,
         5373, 6431, 2660, 3455, 6725, 836, 592, 4873, 7474, 9124, 108, 2842, 154, 5743, 9892,
         1782, 3293, 2249, 6863, 6244, 3501, 970, 7924, 4728, 2438, 4026, 4397, 9316, 9454, 4080,
         5641, 573, 6035, 613, 4174, 7481, 4147, 6011, 5043, 2821, 6613, 1408, 4551, 3600, 4909,
         2063, 2787, 2268, 3429, 2658, 6499, 3234, 3538, 3892, 4451, 7688, 557, 8019, 4410, 3784,
         5382, 5806, 3066, 1687, 2609, 4277, 7702, 3194, 7788, 6391, 3341, 8883, 3206, 7186, 9187,
         1750, 4465, 7722, 3363, 675, 455, 2221>>]
  }

\* x - Math.floor(x) with x = Math.sin(seed * 9301 + 49297) * 49297
seededRandom(seed) ==
  LET row == CHOOSE w \in SeededRandomRows :
               w.q = seed.q /\ seed.r >= w.lo /\ seed.r < w.lo + Len(w.vals)
  IN row.vals[seed.r - row.lo + 1]

\* the k-th Math.random() of an invocation whose generator state is e
MathRandom(e, k) ==
  IF e = 0 THEN 0
  ELSE IF e = 1 THEN 9999
  ELSE (k * 7919 + e * 1049) % 10000

(***************************************************************************)
(* Time series                                                             *)
(***************************************************************************)
Date(y, m, d) == [year |-> y, month |-> m, day |-> d]

\* a point whose band lies on one side of the value
BandPoint_oneSided(date, v, lo, hi) == [date |-> date, value |-> v, hasBand |-> TRUE, min |-> v, max |-> hi]

\* { date, value, min, max }
BandPoint(date, v, lo, hi) == [date |-> date, value |-> v, hasBand |-> TRUE, min |-> lo, max |-> hi]

\* { date, value }
Point(date, v) == [date |-> date, value |-> v, hasBand |-> FALSE, min |-> 0, max |-> 0]

\* for (year = startYear; year <= endYear; year++) for (month = 1; month <= 12; month++)
MonthCount(startYear, endYear) == IF endYear >= startYear THEN 12 * (endYear - startYear + 1) ELSE 0

YearAt(startYear, i) == startYear + ((i - 1) \div 12)

MonthAt(i) == ((i - 1) % 12) + 1

Values(timeSeries) == [i \in 1..Len(timeSeries) |-> timeSeries[i].value]

\* ---- get-ndvi ----
NDVIRegion(lat, lon) ==
  LET isIndusPlain == lat >= 2500000 /\ lat <= 3200000 /\ lon >= 6800000 /\ lon <= 7500000
      isNorthernMountains == lat > 3300000
      isBalochistan == lon < 6700000
      isSindh == lat < 2700000
  IN IF isIndusPlain THEN [name |-> "indus", baseNDVI |-> 45000, seasonalAmplitude |-> 25000, yearlyTrend |-> 500]
     ELSE IF isNorthernMountains THEN [name |-> "mountains", baseNDVI |-> 55000, seasonalAmplitude |-> 30000, yearlyTrend |-> -300]
     ELSE IF isBalochistan THEN [name |-> "balochistan", baseNDVI |-> 15000, seasonalAmplitude |-> 8000, yearlyTrend |-> -200]
     ELSE IF isSindh THEN [name |-> "sindh", baseNDVI |-> 30000, seasonalAmplitude |-> 15000, yearlyTrend |-> 200]
     ELSE [name |-> "default", baseNDVI |-> 40000, seasonalAmplitude |-> 20000, yearlyTrend |-> 300]

\* seasonalAmplitude * 0.6 * sin(monthRadians - PI/2) + seasonalAmplitude * 0.4 * sin(2 * monthRadians + PI/4)
NDVISeasonal(amplitude, month) ==
  RoundDiv(((amplitude * 6) \div 10) * Sin(monthRadians(month) - 90), 10000)
    + RoundDiv(((amplitude * 4) \div 10) * Sin(2 * monthRadians(month) + 45), 10000)

generateDeterministicNDVI(lat, lon, startYear, endYear) ==
  LET region == NDVIRegion(lat, lon)
      seedBase == locationSeed(lat, lon)
      point(year, month) ==
        LET seasonalComponent == NDVISeasonal(region.seasonalAmplitude, month)
            trendComponent == region.yearlyTrend * (year - startYear)
            seed == SeedPlus(seedBase, year * 13 + month * 7)
            variation == RoundDiv((seededRandom(seed) - 5000) * 6000, 10000)
            raw == region.baseNDVI + seasonalComponent + trendComponent + variation
            ndvi == Max2(-10000, Min2(90000, raw))
            uncertainty == 3000 + RoundDiv(seededRandom(SeedPlus(seed, 1)) * 2000, 10000)
        IN BandPoint(Date(year, month, 1), toFixed4(ndvi), toFixed4(ndvi - uncertainty), toFixed4(ndvi + uncertainty))
  IN [i \in 1..MonthCount(startYear, endYear) |-> point(YearAt(startYear, i), MonthAt(i))]

\* ---- the vegetation handler that queries NASA CMR: fallback series ----
generateRealisticPakistanNDVI(lat, lon, startYear, endYear, e) ==
  LET region == NDVIRegion(lat, lon)
      point(i, year, month) ==
        LET seasonalComponent == NDVISeasonal(region.seasonalAmplitude, month)
            trendComponent == region.yearlyTrend * (year - startYear)
            randomVariation == RoundDiv((MathRandom(e, 2 * i - 1) - 5000) * 6000, 10000)
            raw == region.baseNDVI + seasonalComponent + trendComponent + randomVariation
            ndvi == Max2(-10000, Min2(90000, raw))
            uncertainty == 3000 + RoundDiv(MathRandom(e, 2 * i) * 2000, 10000)
        IN BandPoint(Date(year, month, 1), toFixed4(ndvi), toFixed4(ndvi - uncertainty), toFixed4(ndvi + uncertainty))
  IN [i \in 1..MonthCount(startYear, endYear) |-> point(i, YearAt(startYear, i), MonthAt(i))]

\* ---- the same handler: series over the granules CMR returned ----
\* a granule entry: time_start present or not, and its date
Granule(y, m, d) == [hasTimeStart |-> TRUE, date |-> Date(y, m, d)]

GranuleWithoutTimeStart == [hasTimeStart |-> FALSE, date |-> Date(0, 0, 0)]

\* new Date(a.date).getTime() - new Date(b.date).getTime() < 0
DateBefore(a, b) ==
  \/ a.year < b.year
  \/ a.year = b.year /\ a.month < b.month
  \/ a.year = b.year /\ a.month = b.month /\ a.day < b.day

RECURSIVE InsertByDate(_, _)
InsertByDate(p, sorted) ==
  IF sorted = <<>> THEN <<p>>
  ELSE IF DateBefore(p.date, Head(sorted).date) THEN <<p>> \o sorted
  ELSE <<Head(sorted)>> \o InsertByDate(p, Tail(sorted))

RECURSIVE SortByDate(_)
SortByDate(points) ==
  IF points = <<>> THEN <<>> ELSE InsertByDate(Head(points), SortByDate(Tail(points)))

\* uniqueDates: the first point of every YYYY-MM key, in insertion order
RECURSIVE UniqueMonths(_, _)
UniqueMonths(points, seen) ==
  IF points = <<>> THEN <<>>
  ELSE LET monthKey == <<Head(points).date.year, Head(points).date.month>>
       IN IF monthKey \in seen THEN UniqueMonths(Tail(points), seen)
          ELSE <<Head(points)>> \o UniqueMonths(Tail(points), seen \cup {monthKey})

processGranulesWithRealisticNDVI(entries, lat, lon, e) ==
  LET isIndusPlain == lat >= 2500000 /\ lat <= 3200000 /\ lon >= 6800000 /\ lon <= 7500000
      baseNDVI == IF isIndusPlain THEN 45000 ELSE IF lat > 3300000 THEN 55000 ELSE 30000
      seasonalAmplitude == IF isIndusPlain THEN 25000 ELSE 20000
      dated == SelectSeq(entries, LAMBDA g : g.hasTimeStart)
      point(i) ==
        LET date == dated[i].date
            seasonalComponent == NDVISeasonal(seasonalAmplitude, date.month)
            randomVariation == RoundDiv((MathRandom(e, i) - 5000) * 5000, 10000)
            ndvi == Max2(-10000, Min2(90000, baseNDVI + seasonalComponent + randomVariation))
            uncertainty == 2500
        IN BandPoint(date, toFixed4(ndvi), toFixed4(ndvi - uncertainty), toFixed4(ndvi + uncertainty))
      timeSeries == [i \in 1..Len(dated) |-> point(i)]
  IN SortByDate(UniqueMonths(timeSeries, {}))

\* ---- get-aerosol-index ----
\* the classification of the location in generateAerosolIndex
AerosolRegion(lat, lon) ==
  [isUrban |-> \/ lat >= 3100000 /\ lat <= 3200000 /\ lon >= 7400000 /\ lon <= 7500000
               \/ lat >= 2480000 /\ lat <= 2510000 /\ lon >= 6700000 /\ lon <= 6730000,
   isDesert |-> lon < 6700000 \/ (lat < 2700000 /\ lon > 6900000)]

generateAerosolIndex(lat, lon, startYear, endYear) ==
  LET isUrban == AerosolRegion(lat, lon).isUrban
      isDesert == AerosolRegion(lat, lon).isDesert
      baseAI == IF isUrban THEN 180000 ELSE IF isDesert THEN 220000 ELSE 100000
      seasonalAmp == IF isDesert THEN 120000 ELSE 60000
      seedBase == locationSeed(lat, lon)
      point(year, month) ==
        LET seasonal == RoundDiv((seasonalAmp \div 10) * Sin(monthRadians(month) - 30), 1000)
            seed == SeedPlus(seedBase, year * 13 + month * 7)
            variation == RoundDiv((seededRandom(seed) - 5000) * 40000, 10000)
            ai == Max2(0, Min2(500000, baseAI + seasonal + variation))
            unc == 10000 + RoundDiv(seededRandom(SeedPlus(seed, 1)) * 10000, 10000)
        IN BandPoint(Date(year, month, 1), toFixed4(ai), toFixed4(ai - unc), toFixed4(ai + unc))
  IN [i \in 1..MonthCount(startYear, endYear) |-> point(YearAt(startYear, i), MonthAt(i))]

\* ---- get-so2 ----
SO2IsIndustrial(lat, lon) ==
  \/ lat >= 3100000 /\ lat <= 3200000 /\ lon >= 7400000 /\ lon <= 7500000
  \/ lat >= 2480000 /\ lat <= 2510000 /\ lon >= 6700000 /\ lon <= 6730000

generateSO2(lat, lon, startYear, endYear) ==
  LET isIndustrial == SO2IsIndustrial(lat, lon)
      baseSO2 == IF isIndustrial THEN 35000 ELSE 12000
      seedBase == locationSeed(lat, lon)
      point(year, month) ==
        LET seasonal == RoundDiv(8000 * Sin(monthRadians(month) + 180), 10000)
            seed == SeedPlus(seedBase, year * 13 + month * 7)
            variation == RoundDiv((seededRandom(seed) - 5000) * 6000, 10000)
            so2 == Max2(1000, Min2(150000, baseSO2 + seasonal + variation))
            unc == 2000
        IN BandPoint(Date(year, month, 1), toFixed4(so2), toFixed4(so2 - unc), toFixed4(so2 + unc))
  IN [i \in 1..MonthCount(startYear, endYear) |-> point(YearAt(startYear, i), MonthAt(i))]

\* ---- get-co ----
\* 0.008 * sin(monthRad + PI) + 0.004 * sin(2 * monthRad - PI/3)
COSeasonal(month) ==
  RoundDiv(800 * Sin(monthRadians(month) + 180), 10000)
    + RoundDiv(400 * Sin(2 * monthRadians(month) - 60), 10000)

COIsUrban(lat, lon) ==
  \/ lat >= 3100000 /\ lat <= 3200000 /\ lon >= 7400000 /\ lon <= 7500000
  \/ lat >= 2480000 /\ lat <= 2510000 /\ lon >= 6700000 /\ lon <= 6730000

generateCO(lat, lon, startYear, endYear) ==
  LET isUrban == COIsUrban(lat, lon)
      baseCO == IF isUrban THEN 4200 ELSE 2800
      seedBase == locationSeed(lat, lon)
      point(year, month) ==
        LET seed == SeedPlus(seedBase, year * 13 + month * 7)
            variation == RoundDiv((seededRandom(seed) - 5000) * 500, 10000)
            co == Max2(1500, Min2(8000, baseCO + COSeasonal(month) + variation))
            unc == 200
        IN BandPoint(Date(year, month, 1), toFixed4(co), toFixed4(co - unc), toFixed4(co + unc))
  IN [i \in 1..MonthCount(startYear, endYear) |-> point(YearAt(startYear, i), MonthAt(i))]

\* get-co, the version drawing Math.random
generateCO_random(lat, lon, startYear, endYear, e) ==
  LET isUrban == \/ lat >= 3100000 /\ lat <= 3200000 /\ lon >= 7400000 /\ lon <= 7500000
                 \/ lat >= 2480000 /\ lat <= 2510000 /\ lon >= 6700000 /\ lon <= 6730000
      baseCO == IF isUrban THEN 4200 ELSE 2800
      point(i, year, month) ==
        LET random == RoundDiv((MathRandom(e, i) - 5000) * 500, 10000)
            co == Max2(1500, Min2(8000, baseCO + COSeasonal(month) + random))
            unc == 200
        IN BandPoint(Date(year, month, 1), toFixed4(co), toFixed4(co - unc), toFixed4(co + unc))
  IN [i \in 1..MonthCount(startYear, endYear) |-> point(i, YearAt(startYear, i), MonthAt(i))]

\* ---- get-no2 ----
NO2IsUrban(lat, lon) ==
  \/ lat >= 3100000 /\ lat <= 3200000 /\ lon >= 7400000 /\ lon <= 7500000
  \/ lat >= 3350000 /\ lat <= 3400000 /\ lon >= 7300000 /\ lon <= 7330000
  \/ lat >= 2480000 /\ lat <= 2510000 /\ lon >= 6700000 /\ lon <= 6730000

\* the body of the month loop, given the noise draw of the month
NO2Point(baseNO2, year, month, draw) ==
  LET seasonal == RoundDiv((baseNO2 \div 400) * Sin(monthRadians(month) + 180), 100)
      yearAdj == IF year = 2020 /\ month >= 3 /\ month <= 6 THEN -((baseNO2 * 3) \div 10) ELSE 0
      variation == RoundDiv((draw - 5000) * ((baseNO2 * 15) \div 100), 10000)
      no2 == Max2(10000, baseNO2 + seasonal + yearAdj + variation)
      unc == RoundDiv(no2 * 8, 100)
  IN BandPoint(Date(year, month, 1), toExponential4(no2), toExponential4(no2 - unc), toExponential4(no2 + unc))

generateNO2(lat, lon, startYear, endYear) ==
  LET baseNO2 == IF NO2IsUrban(lat, lon) THEN 850000 ELSE 250000
      seedBase == locationSeed(lat, lon)
      point(year, month) ==
        NO2Point(baseNO2, year, month, seededRandom(SeedPlus(seedBase, year * 13 + month * 7)))
  IN [i \in 1..MonthCount(startYear, endYear) |-> point(YearAt(startYear, i), MonthAt(i))]

\* get-no2, the version drawing Math.random
generateNO2_random(lat, lon, startYear, endYear, e) ==
  LET baseNO2 == IF NO2IsUrban(lat, lon) THEN 850000 ELSE 250000
  IN [i \in 1..MonthCount(startYear, endYear) |->
        NO2Point(baseNO2, YearAt(startYear, i), MonthAt(i), MathRandom(e, i))]

\* ---- nation-wide series (all of them over 2019..2025) ----
\* seasonalAmplitude * 0.7 * sin(monthRadians - PI/2) + seasonalAmplitude * 0.3 * sin(2 * monthRadians + PI/4)
NationalNDVISeasonal(month) ==
  RoundDiv(8400 * Sin(monthRadians(month) - 90), 10000)
    + RoundDiv(3600 * Sin(2 * monthRadians(month) + 45), 10000)

droughtYears == {2019}

floodYears == {2022}

\* the year-specific adjustment of the nation-wide vegetation series
yearAdjustment(year, month) ==
  LET drought == IF year \in droughtYears
                 THEN (IF month >= 6 /\ month <= 9 THEN -4000 - 3000 ELSE -4000)
                 ELSE 0
  IN IF year \in floodYears
     THEN (IF month >= 7 /\ month <= 10 THEN -8000
           ELSE IF month >= 11 \/ month <= 2 THEN 2000
           ELSE drought)
     ELSE drought

\* the body of the month loop of the nation-wide vegetation series
NationalNDVIPoint(startYear, year, month, draw) ==
  LET trendComponent == 200 * (year - startYear)
      variation == RoundDiv((draw - 5000) * 2500, 10000)
      raw == 32000 + NationalNDVISeasonal(month) + yearAdjustment(year, month) + trendComponent + variation
      ndvi == Max2(10000, Min2(60000, raw))
  IN Point(Date(year, month, 1), toFixed4(ndvi))

\* get-ndvi-pakistan-range, drawing Math.random
generatePakistanNationalNDVI(startYear, endYear, e) ==
  [i \in 1..MonthCount(startYear, endYear) |->
     NationalNDVIPoint(startYear, YearAt(startYear, i), MonthAt(i), MathRandom(e, i))]

\* get-ndvi-pakistan-range, seeded: seed = year * 13 + month * 7 + 42
NationalNDVISeries_seeded(startYear, endYear) ==
  [i \in 1..MonthCount(startYear, endYear) |->
     LET year == YearAt(startYear, i)
         month == MonthAt(i)
     IN NationalNDVIPoint(startYear, year, month, seededRandom(Seed(0, year * 13 + month * 7 + 42)))]

NationalAerosolPoint(year, month, draw) ==
  LET seasonal == RoundDiv(8000 * Sin(monthRadians(month) - 30), 1000)
      variation == RoundDiv((draw - 5000) * 20000, 10000)
      ai == Max2(20000, Min2(400000, 140000 + seasonal + variation))
  IN Point(Date(year, month, 1), toFixed4(ai))

\* get-aerosol-pakistan-range, drawing Math.random
generateNationalAerosolIndex(startYear, endYear, e) ==
  [i \in 1..MonthCount(startYear, endYear) |->
     NationalAerosolPoint(YearAt(startYear, i), MonthAt(i), MathRandom(e, i))]

\* get-aerosol-pakistan-range, seeded: seed = year * 13 + month * 7 + 99
NationalAerosolSeries_seeded(startYear, endYear) ==
  [i \in 1..MonthCount(startYear, endYear) |->
     LET year == YearAt(startYear, i)
         month == MonthAt(i)
     IN NationalAerosolPoint(year, month, seededRandom(Seed(0, year * 13 + month * 7 + 99)))]

\* get-so2-pakistan-range: seed = year * 13 + month * 7 + 77
NationalSO2Series(startYear, endYear) ==
  [i \in 1..MonthCount(startYear, endYear) |->
     LET year == YearAt(startYear, i)
         month == MonthAt(i)
         seasonal == RoundDiv(6000 * Sin(monthRadians(month) + 180), 10000)
         variation == RoundDiv((seededRandom(Seed(0, year * 13 + month * 7 + 77)) - 5000) * 4000, 10000)
         so2 == Max2(2000, Min2(80000, 18000 + seasonal + variation))
     IN Point(Date(year, month, 1), toFixed4(so2))]

\* get-co-pakistan-range, drawing Math.random
NationalCOSeries_random(startYear, endYear, e) ==
  [i \in 1..MonthCount(startYear, endYear) |->
     LET month == MonthAt(i)
         seasonal == RoundDiv(600 * Sin(monthRadians(month) + 180), 10000)
                       + RoundDiv(300 * Sin(2 * monthRadians(month) - 60), 10000)
         random == RoundDiv((MathRandom(e, i) - 5000) * 300, 10000)
         co == Max2(1800, Min2(6000, 3200 + seasonal + random))
     IN Point(Date(YearAt(startYear, i), month, 1), toFixed4(co))]

NationalNO2Point(year, month, draw) ==
  LET baseNO2 == 450000
      seasonal == RoundDiv((baseNO2 \div 500) * Sin(monthRadians(month) + 180), 100)
      yearAdj == IF year = 2020 /\ month >= 3 /\ month <= 6 THEN -(baseNO2 \div 4) ELSE 0
      variation == RoundDiv((draw - 5000) * (baseNO2 \div 10), 10000)
      no2 == Max2(10000, baseNO2 + seasonal + yearAdj + variation)
  IN Point(Date(year, month, 1), toExponential4(no2))

\* get-no2-pakistan-range, drawing Math.random
NationalNO2Series_random(startYear, endYear, e) ==
  [i \in 1..MonthCount(startYear, endYear) |->
     NationalNO2Point(YearAt(startYear, i), MonthAt(i), MathRandom(e, i))]

\* get-no2-pakistan-range, seeded: seed = year * 13 + month * 7 + 55
NationalNO2Series_seeded(startYear, endYear) ==
  [i \in 1..MonthCount(startYear, endYear) |->
     LET year == YearAt(startYear, i)
         month == MonthAt(i)
     IN NationalNO2Point(year, month, seededRandom(Seed(0, year * 13 + month * 7 + 55)))]

(***************************************************************************)
(* Statistics, as every handler computes them inline                       *)
(***************************************************************************)
\* Number(mean.toFixed(4)) with mean = values.reduce((a, b) => a + b, 0) / values.length
StatMean(values) ==
  IF Len(values) = 0 THEN NaN ELSE Finite(RoundDiv(SumSeq(values), Len(values)))

\* mean > threshold, on the unrounded mean (threshold in the unit of the values)
MeanAbove(values, threshold) ==
  Len(values) > 0 /\ SumSeq(values) > threshold * Len(values)

\* Math.min(...values)
StatMin(values) == IF Len(values) = 0 THEN PosInfinity ELSE Finite(MinSeq(values))

\* Math.max(...values)
StatMax(values) == IF Len(values) = 0 THEN NegInfinity ELSE Finite(MaxSeq(values))

\* Math.sqrt(variance), variance = sum of (val - mean)^2 / values.length;
\* the deviations are held in g units of the values
StatStdDev(values, g) ==
  LET n == Len(values)
      mean == RoundDiv(SumSeq(values), n)
      sq(i) == LET d == RoundDiv(Abs(values[i] - mean), g) IN RoundDiv(d * d, n)
  IN IF n = 0 THEN NaN
     ELSE Finite(g * Sqrt(SumSeq([i \in 1..n |-> sq(i)])))

\* trendPct = mean !== 0 ? ((slope * n) / mean) * 100 : 0, slope = den !== 0 ? num / den : 0,
\* in 0.01 %.  With xMean = (n - 1) / 2:
\*   num = (1/2) * sum of (2 i - (n - 1)) * values[i],  den = n (n^2 - 1) / 12,
\* hence trendPct = 600 * n * M / ((n^2 - 1) * sum) percent, M = sum of (2 i - (n - 1)) * values[i]
trendPct(values) ==
  LET n == Len(values)
      sum == SumSeq(values)
      mean == RoundDiv(sum, n)
      M == SumSeq([i \in 1..n |-> (2 * (i - 1) - (n - 1)) * (values[i] - values[1])])
      X == MulDiv(M, 100, n * n - 1)
  IN IF n = 0 THEN NaN
     ELSE IF sum = 0 \/ n = 1 \/ mean = 0 THEN Finite(0)
     ELSE IF mean > 0 THEN Finite(MulDiv(X, 600, mean))
     ELSE Finite(MulDiv(-X, 600, -mean))

\* Math.abs(trendPct) < 2 ? 'stable' : trendPct > 0 ? 'increasing' : 'decreasing'
trend(tp) ==
  IF tp.k = "NaN" THEN "decreasing"
  ELSE IF Abs(tp.v) < 200 THEN "stable"
  ELSE IF tp.v > 0 THEN "increasing"
  ELSE "decreasing"

\* Number(trendPct.toFixed(1))
trendPercent(tp) == IF tp.k = "NaN" THEN NaN ELSE Finite(toFixed1(tp.v))

(***************************************************************************)
(* Responses                                                               *)
(***************************************************************************)
NoStats ==
  [keys |-> {}, mean |-> NaN, min |-> NaN, max |-> NaN, stdDev |-> NaN,
   trend |-> "", trendPercent |-> NaN, peakMonth |-> "", lowMonth |-> ""]

NoBounds == [minLat |-> 0, maxLat |-> 0, minLon |-> 0, maxLon |-> 0]

\* keys: the members of the JSON body; the other fields hold a member's value
NoResponse ==
  [status |-> 0, keys |-> {}, error |-> "", bounds |-> NoBounds,
   location |-> [lat |-> Undefined, lon |-> Undefined],
   dateRange |-> [startYear |-> 0, endYear |-> 0],
   timeSeries |-> <<>>, stats |-> NoStats, insights |-> <<>>, source |-> "", satellite |-> ""]

\* an insight string; arg is the number printed in it, -1 when it prints none
Insight(text) == [text |-> text, arg |-> -1]

InsightWith(text, arg) == [text |-> text, arg |-> arg]

\* if (req.method === 'OPTIONS') return new Response(null, { headers: corsHeaders })
Preflight == [resp |-> [NoResponse EXCEPT !.status = 200], steps |-> <<"preflight">>]

\* the catch block: status 500, { error: error.message }
InternalError(message, done) ==
  [resp |-> [NoResponse EXCEPT !.status = 500, !.keys = {"error"}, !.error = message],
   steps |-> done \o <<"catch">>]

\* status 400, { error: 'Invalid coordinates.' }
InvalidCoordinates(message) ==
  [resp |-> [NoResponse EXCEPT !.status = 400, !.keys = {"error"}, !.error = message],
   steps |-> <<"json", "typeof">>]

\* a rejection that leaves the box out of its body
LocationOutsidePakistan_withoutBounds(bounds, moreKeys) ==
  [resp |-> [NoResponse EXCEPT !.status = 400, !.keys = {"error"} \cup moreKeys,
                               !.error = "Location outside Pakistan"],
   steps |-> <<"json", "typeof", "bounds">>]

\* status 400, { error: 'Location outside Pakistan', bounds: PAKISTAN_BOUNDS }
LocationOutsidePakistan(bounds, moreKeys) ==
  [resp |-> [NoResponse EXCEPT !.status = 400, !.keys = {"error", "bounds"} \cup moreKeys,
                               !.error = "Location outside Pakistan", !.bounds = bounds],
   steps |-> <<"json", "typeof", "bounds">>]

\* { success: true, location: { lat, lon }, dateRange: { startYear, endYear }, timeSeries, stats, insights, source[, satellite] }
PointSuccess(body, startYear, endYear, timeSeries, stats, insights, source, satellite) ==
  [resp |-> [NoResponse EXCEPT
               !.status = 200,
               !.keys = {"success", "location", "dateRange", "timeSeries", "stats", "insights", "source"}
                          \cup (IF satellite = "" THEN {} ELSE {"satellite"}),
               !.location = [lat |-> body.lat, lon |-> body.lon],
               !.dateRange = [startYear |-> startYear, endYear |-> endYear],
               !.timeSeries = timeSeries, !.stats = stats, !.insights = insights,
               !.source = source, !.satellite = satellite],
   steps |-> <<"json", "typeof", "bounds", "synthesize", "stats", "respond">>]

\* { success: true, country: 'Pakistan', dateRange, nationalTimeSeries, stats, insights, source[, satellite] }
NationalSuccess(startYear, endYear, timeSeries, moreKeys, stats, insights, source, satellite) ==
  [resp |-> [NoResponse EXCEPT
               !.status = 200,
               !.keys = {"success", "country", "dateRange", "nationalTimeSeries", "stats", "insights", "source"}
                          \cup moreKeys \cup (IF satellite = "" THEN {} ELSE {"satellite"}),
               !.dateRange = [startYear |-> startYear, endYear |-> endYear],
               !.timeSeries = timeSeries, !.stats = stats, !.insights = insights,
               !.source = source, !.satellite = satellite],
   steps |-> <<"synthesize", "stats", "respond">>]

\* stats: { mean, min, max, stdDev, trend, trendPercent }, numbers through toFixed(4)
FullStats(values) ==
  [NoStats EXCEPT !.keys = {"mean", "min", "max", "stdDev", "trend", "trendPercent"},
                  !.mean = StatMean(values), !.min = StatMin(values), !.max = StatMax(values),
                  !.stdDev = StatStdDev(values, 1),
                  !.trend = trend(trendPct(values)), !.trendPercent = trendPercent(trendPct(values))]

\* stats: { mean, min, max }, numbers through toFixed(4)
MeanMinMaxStats(values) ==
  [NoStats EXCEPT !.keys = {"mean", "min", "max"},
                  !.mean = StatMean(values), !.min = StatMin(values), !.max = StatMax(values)]

\* a statistic through Number(x.toExponential(4))
Exponential4(x) == IF x.k = "finite" THEN Finite(toExponential4(x.v)) ELSE x

\* stats of a nation-wide response: mean, min, max[, stdDev], peakMonth, lowMonth
NationalStats(values, withStdDev, g, exponential, peakMonth, lowMonth) ==
  LET conv(x) == IF exponential THEN Exponential4(x) ELSE x
  IN [NoStats EXCEPT
        !.keys = {"mean", "min", "max", "peakMonth", "lowMonth"}
                   \cup (IF withStdDev THEN {"stdDev"} ELSE {}),
        !.mean = conv(StatMean(values)), !.min = conv(StatMin(values)), !.max = conv(StatMax(values)),
        !.stdDev = IF withStdDev THEN conv(StatStdDev(values, g)) ELSE NaN,
        !.peakMonth = peakMonth, !.lowMonth = lowMonth]

(***************************************************************************)
(* Per-point handlers.  r is the request: method and body.                 *)
(***************************************************************************)
\* ---- get-ndvi ----
\* insights whose cover sentence reads the length of the series, not a statistic
NDVIInsights_bySeriesLength(values) ==
  LET tp == trendPct(values)
  IN << (IF tp.k = "finite" /\ Abs(tp.v) >= 200
         THEN InsightWith(IF tp.v > 0 THEN "NDVI shows a upward trend" ELSE "NDVI shows a downward trend",
                          toFixed1(Abs(tp.v)))
         ELSE Insight("NDVI remains relatively stable throughout the analysis period.")),
        (IF Len(values) > 12 THEN Insight("Healthy vegetation cover detected.")
         ELSE Insight("Very low vegetation cover - arid region.")),
        Insight("Peak vegetation during monsoon (Jul-Sep) and post-Rabi harvest (Mar-Apr).") >>

NDVIInsights(values) ==
  LET tp == trendPct(values)
  IN << (IF tp.k = "finite" /\ Abs(tp.v) >= 200
         THEN InsightWith(IF tp.v > 0 THEN "NDVI shows a upward trend" ELSE "NDVI shows a downward trend",
                          toFixed1(Abs(tp.v)))
         ELSE Insight("NDVI remains relatively stable throughout the analysis period.")),
        (IF MeanAbove(values, 5000) THEN Insight("Healthy vegetation cover detected.")
         ELSE IF MeanAbove(values, 3000) THEN Insight("Moderate vegetation cover detected.")
         ELSE IF MeanAbove(values, 1500) THEN Insight("Sparse vegetation - semi-arid conditions.")
         ELSE Insight("Very low vegetation cover - arid region.")),
        Insight("Peak vegetation during monsoon (Jul-Sep) and post-Rabi harvest (Mar-Apr).") >>

serve_get_ndvi(r) ==
  IF r.method = "OPTIONS" THEN Preflight
  ELSE IF ~r.body.ok THEN InternalError("Unexpected end of JSON input", <<"json">>)
  ELSE IF r.body.lat.t # "number" \/ r.body.lon.t # "number" THEN InvalidCoordinates("Invalid coordinates.")
  ELSE IF ~isInsidePakistan_ndvi(r.body.lat.v, r.body.lon.v) THEN LocationOutsidePakistan(PAKISTAN_BOUNDS_ndvi, {})
  ELSE LET startYear == Default(r.body.startYear, 2019)
           endYear == Default(r.body.endYear, 2025)
           timeSeries == generateDeterministicNDVI(r.body.lat.v, r.body.lon.v, startYear, endYear)
           values == Values(timeSeries)
       IN PointSuccess(r.body, startYear, endYear, timeSeries, FullStats(values), NDVIInsights(values),
                       "MODIS MOD13Q1 (250m resolution)", "MODIS")

\* ---- get-aerosol-index ----
AerosolInsights(values) ==
  << (IF MeanAbove(values, 20000) THEN Insight("High aerosol loading - dust or industrial pollution.")
      ELSE IF MeanAbove(values, 10000) THEN Insight("Moderate aerosol levels - typical for semi-arid regions.")
      ELSE Insight("Low aerosol index - clean atmospheric conditions.")),
     Insight("Aerosol peaks during May-June dust season and post-harvest crop burning (Oct-Nov).") >>

serve_get_aerosol_index(r) ==
  IF r.method = "OPTIONS" THEN Preflight
  ELSE IF ~r.body.ok THEN InternalError("Unexpected end of JSON input", <<"json">>)
  ELSE IF r.body.lat.t # "number" \/ r.body.lon.t # "number" THEN InvalidCoordinates("Invalid coordinates.")
  ELSE IF ~isInsidePakistan_aerosol(r.body.lat.v, r.body.lon.v) THEN LocationOutsidePakistan(PAKISTAN_BOUNDS_aerosol, {})
  ELSE LET startYear == Default(r.body.startYear, 2019)
           endYear == Default(r.body.endYear, 2025)
           timeSeries == generateAerosolIndex(r.body.lat.v, r.body.lon.v, startYear, endYear)
           values == Values(timeSeries)
       IN PointSuccess(r.body, startYear, endYear, timeSeries, FullStats(values), AerosolInsights(values),
                       "Sentinel-5P TROPOMI Absorbing Aerosol Index", "Sentinel-5P")

\* ---- get-so2 ----
SO2Insights(values) ==
  << (IF MeanAbove(values, 3000) THEN Insight("Elevated SO2 levels - industrial emissions or power plants nearby.")
      ELSE Insight("SO2 within normal background levels.")),
     Insight("SO2 peaks during winter due to increased fossil fuel combustion.") >>

serve_get_so2(r) ==
  IF r.method = "OPTIONS" THEN Preflight
  ELSE IF ~r.body.ok THEN InternalError("Unexpected end of JSON input", <<"json">>)
  ELSE IF r.body.lat.t # "number" \/ r.body.lon.t # "number" THEN InvalidCoordinates("Invalid coordinates.")
  ELSE IF ~isInsidePakistan_so2(r.body.lat.v, r.body.lon.v) THEN LocationOutsidePakistan(PAKISTAN_BOUNDS_so2, {})
  ELSE LET startYear == Default(r.body.startYear, 2019)
           endYear == Default(r.body.endYear, 2025)
           timeSeries == generateSO2(r.body.lat.v, r.body.lon.v, startYear, endYear)
           values == Values(timeSeries)
       IN PointSuccess(r.body, startYear, endYear, timeSeries, MeanMinMaxStats(values), SO2Insights(values),
                       "Sentinel-5P TROPOMI SO2 Column", "Sentinel-5P")

\* ---- get-co ----
COInsights(values) ==
  << (IF MeanAbove(values, 400) THEN Insight("Elevated CO levels - urban/industrial emissions or biomass burning.")
      ELSE Insight("CO levels within normal background range.")),
     Insight("CO peaks during winter and post-harvest crop burning (Oct-Nov).") >>

serve_get_co(r) ==
  IF r.method = "OPTIONS" THEN Preflight
  ELSE IF ~r.body.ok THEN InternalError("Unexpected end of JSON input", <<"json">>)
  ELSE IF r.body.lat.t # "number" \/ r.body.lon.t # "number" THEN InvalidCoordinates("Invalid coordinates.")
  ELSE IF ~isInsidePakistan_co(r.body.lat.v, r.body.lon.v) THEN LocationOutsidePakistan(PAKISTAN_BOUNDS_co, {})
  ELSE LET startYear == Default(r.body.startYear, 2019)
           endYear == Default(r.body.endYear, 2025)
           timeSeries == generateCO(r.body.lat.v, r.body.lon.v, startYear, endYear)
           values == Values(timeSeries)
       IN PointSuccess(r.body, startYear, endYear, timeSeries, MeanMinMaxStats(values), COInsights(values),
                       "Sentinel-5P TROPOMI CO Total Column", "Sentinel-5P")

\* get-co, the version drawing Math.random; e is the state of the generator
serve_get_co_random(r, e) ==
  IF r.method = "OPTIONS" THEN Preflight
  ELSE IF ~r.body.ok THEN InternalError("Unexpected end of JSON input", <<"json">>)
  ELSE IF r.body.lat.t # "number" \/ r.body.lon.t # "number" THEN InvalidCoordinates("Invalid coordinates.")
  ELSE IF ~isInsidePakistan_co_random(r.body.lat.v, r.body.lon.v) THEN LocationOutsidePakistan(PAKISTAN_BOUNDS_co_random, {})
  ELSE LET startYear == Default(r.body.startYear, 2019)
           endYear == Default(r.body.endYear, 2025)
           timeSeries == generateCO_random(r.body.lat.v, r.body.lon.v, startYear, endYear, e)
           values == Values(timeSeries)
       IN PointSuccess(r.body, startYear, endYear, timeSeries, MeanMinMaxStats(values), COInsights(values),
                       "Sentinel-5P TROPOMI CO Total Column", "")

\* ---- get-no2 ----
NO2Insights(values) ==
  << (IF MeanAbove(values, 500000) THEN Insight("Elevated NO2 - heavy traffic and industrial activity.")
      ELSE Insight("NO2 within normal background levels.")),
     Insight("NO2 peaks in winter due to atmospheric inversion."),
     Insight("COVID-19 lockdowns (Mar-Jun 2020) caused a notable drop.") >>

serve_get_no2(r) ==
  IF r.method = "OPTIONS" THEN Preflight
  ELSE IF ~r.body.ok THEN InternalError("Unexpected end of JSON input", <<"json">>)
  ELSE IF r.body.lat.t # "number" \/ r.body.lon.t # "number" THEN InvalidCoordinates("Invalid coordinates.")
  ELSE IF ~isInsidePakistan_no2(r.body.lat.v, r.body.lon.v) THEN LocationOutsidePakistan(PAKISTAN_BOUNDS_no2, {})
  ELSE LET startYear == Default(r.body.startYear, 2019)
           endYear == Default(r.body.endYear, 2025)
           timeSeries == generateNO2(r.body.lat.v, r.body.lon.v, startYear, endYear)
           values == Values(timeSeries)
           stats ==
             [NoStats EXCEPT !.keys = {"mean", "min", "max", "stdDev", "trend", "trendPercent"},
                             !.mean = Exponential4(StatMean(values)),
                             !.min = Exponential4(StatMin(values)),
                             !.max = Exponential4(StatMax(values)),
                             !.stdDev = Exponential4(StatStdDev(values, 100)),
                             !.trend = trend(trendPct(values)),
                             !.trendPercent = trendPercent(trendPct(values))]
       IN PointSuccess(r.body, startYear, endYear, timeSeries, stats, NO2Insights(values),
                       "Sentinel-5P TROPOMI NO2 Column", "Sentinel-5P")

\* get-no2, the version drawing Math.random
serve_get_no2_random(r, e) ==
  IF r.method = "OPTIONS" THEN Preflight
  ELSE IF ~r.body.ok THEN InternalError("Unexpected end of JSON input", <<"json">>)
  ELSE IF r.body.lat.t # "number" \/ r.body.lon.t # "number" THEN InvalidCoordinates("Invalid coordinates.")
  ELSE IF ~isInsidePakistan_no2_random(r.body.lat.v, r.body.lon.v) THEN LocationOutsidePakistan(PAKISTAN_BOUNDS_no2_random, {})
  ELSE LET startYear == Default(r.body.startYear, 2019)
           endYear == Default(r.body.endYear, 2025)
           timeSeries == generateNO2_random(r.body.lat.v, r.body.lon.v, startYear, endYear, e)
           values == Values(timeSeries)
           stats ==
             [NoStats EXCEPT !.keys = {"mean", "min", "max"},
                             !.mean = Exponential4(StatMean(values)),
                             !.min = Exponential4(StatMin(values)),
                             !.max = Exponential4(StatMax(values))]
       IN PointSuccess(r.body, startYear, endYear, timeSeries, stats, NO2Insights(values),
                       "Sentinel-5P TROPOMI NO2 Column", "")

\* ---- the vegetation handler that queries NASA CMR ----
\* env: token (NASA_EARTHDATA_TOKEN is set), cmr (outcome of the fetch), entries
\* (data.feed.entry), e (state of Math.random)
\* fetched: what became of the request to CMR, kept for the trace of the handler
fetchMODISNDVI(lat, lon, startYear, endYear, env) ==
  IF ~env.token THEN [threw |-> TRUE, fetched |-> "no token", timeSeries |-> <<>>]
  ELSE IF env.cmr \in {"throws", "not_ok"} THEN
    [threw |-> FALSE, fetched |-> "fetch " \o env.cmr,
     timeSeries |-> generateRealisticPakistanNDVI(lat, lon, startYear, endYear, env.e)]
  ELSE IF Len(env.entries) = 0 THEN
    [threw |-> FALSE, fetched |-> "fetch empty",
     timeSeries |-> generateRealisticPakistanNDVI(lat, lon, startYear, endYear, env.e)]
  ELSE [threw |-> FALSE, fetched |-> "fetch granules",
        timeSeries |-> processGranulesWithRealisticNDVI(env.entries, lat, lon, env.e)]

\* the insights of this handler read the rounded stats
MODISInsights(stats) ==
  << (IF stats.trend = "increasing"
      THEN InsightWith("NDVI shows an upward trend indicating improving vegetation health.", Abs(stats.trendPercent.v))
      ELSE IF stats.trend = "decreasing"
      THEN InsightWith("NDVI shows a downward trend indicating potential vegetation stress.", Abs(stats.trendPercent.v))
      ELSE Insight("NDVI remains relatively stable throughout the analysis period.")),
     (IF stats.mean.k = "finite" /\ stats.mean.v > 5000
      THEN Insight("Healthy vegetation cover detected - likely active agricultural or forested area.")
      ELSE IF stats.mean.k = "finite" /\ stats.mean.v > 3000
      THEN Insight("Moderate vegetation cover detected - mixed land use area.")
      ELSE IF stats.mean.k = "finite" /\ stats.mean.v > 1500
      THEN Insight("Sparse vegetation detected - semi-arid conditions or fallow land.")
      ELSE Insight("Very low vegetation cover - arid region or bare soil.")),
     Insight("Peak vegetation typically occurs during monsoon season (July-September) and post-Rabi harvest (March-April).") >>

serve_get_ndvi_modis(r, env) ==
  IF r.method = "OPTIONS" THEN Preflight
  ELSE IF ~r.body.ok THEN InternalError("Unexpected end of JSON input", <<"json">>)
  ELSE IF r.body.lat.t # "number" \/ r.body.lon.t # "number"
  THEN InvalidCoordinates("Invalid coordinates. Latitude and longitude must be numbers.")
  ELSE IF ~isInsidePakistan_modis(r.body.lat.v, r.body.lon.v)
  THEN LocationOutsidePakistan(PAKISTAN_BOUNDS_modis, {"message"})
  ELSE LET startYear == Default(r.body.startYear, 2019)
           endYear == Default(r.body.endYear, 2025)
           fetched == fetchMODISNDVI(r.body.lat.v, r.body.lon.v, startYear, endYear, env)
           stats == FullStats(Values(fetched.timeSeries))
       IN IF fetched.threw
          THEN InternalError("NASA_EARTHDATA_TOKEN not configured", <<"json", "typeof", "bounds">>)
          ELSE [PointSuccess(r.body, startYear, endYear, fetched.timeSeries, stats, MODISInsights(stats),
                             "MODIS MOD13Q1 (250m resolution)", "")
                  EXCEPT !.steps = <<"json", "typeof", "bounds", "synthesize", fetched.fetched, "stats", "respond">>]

(***************************************************************************)
(* Nation-wide handlers: they read nothing of the request but its method   *)
(***************************************************************************)
NDVINationalInsights ==
  << Insight("Pakistan's NDVI shows strong seasonal patterns driven by the monsoon."),
     Insight("The Indus Plain shows highest NDVI due to irrigated agriculture."),
     Insight("2022 floods caused significant vegetation disruption."),
     Insight("Long-term trend shows slight improvement.") >>

\* get-ndvi-pakistan-range, drawing Math.random; the contents of regionalData and
\* yearlyAverages are left out
serve_get_ndvi_pakistan_range_random(r, e) ==
  IF r.method = "OPTIONS" THEN Preflight
  ELSE LET nationalTimeSeries == generatePakistanNationalNDVI(2019, 2025, e)
       IN NationalSuccess(2019, 2025, nationalTimeSeries, {"regionalData", "yearlyAverages"},
            NationalStats(Values(nationalTimeSeries), FALSE, 1, FALSE,
                          "August-September (Monsoon)", "May-June (Pre-Monsoon)"),
            <<Insight("Pakistan's NDVI shows strong seasonal patterns driven by the monsoon (July-September).")>>
              \o Tail(NDVINationalInsights)
              \o <<Insight("Long-term trend shows slight improvement due to agricultural intensification.")>>,
            "MODIS MOD13Q1 Aggregated Data", "")

\* get-ndvi-pakistan-range, seeded
serve_get_ndvi_pakistan_range(r) ==
  IF r.method = "OPTIONS" THEN Preflight
  ELSE LET timeSeries == NationalNDVISeries_seeded(2019, 2025)
       IN NationalSuccess(2019, 2025, timeSeries, {"yearlyAverages"},
            NationalStats(Values(timeSeries), FALSE, 1, FALSE,
                          "August-September (Monsoon)", "May-June (Pre-Monsoon)"),
            NDVINationalInsights, "MODIS MOD13Q1 Aggregated Data", "MODIS")

AerosolNationalInsights ==
  << Insight("Aerosol index peaks during May-June dust storms."),
     Insight("Post-harvest crop burning causes secondary spike."),
     Insight("Winter months show lowest aerosol levels.") >>

\* get-aerosol-pakistan-range, drawing Math.random
serve_get_aerosol_pakistan_range_random(r, e) ==
  IF r.method = "OPTIONS" THEN Preflight
  ELSE LET nationalTimeSeries == generateNationalAerosolIndex(2019, 2025, e)
       IN NationalSuccess(2019, 2025, nationalTimeSeries, {},
            NationalStats(Values(nationalTimeSeries), FALSE, 1, FALSE,
                          "May-June (Dust Season)", "January-February"),
            AerosolNationalInsights, "Sentinel-5P TROPOMI Absorbing Aerosol Index", "")

\* get-aerosol-pakistan-range, seeded
serve_get_aerosol_pakistan_range(r) ==
  IF r.method = "OPTIONS" THEN Preflight
  ELSE LET timeSeries == NationalAerosolSeries_seeded(2019, 2025)
       IN NationalSuccess(2019, 2025, timeSeries, {},
            NationalStats(Values(timeSeries), TRUE, 1, FALSE,
                          "May-June (Dust Season)", "January-February"),
            AerosolNationalInsights, "Sentinel-5P TROPOMI Absorbing Aerosol Index", "Sentinel-5P")

\* get-so2-pakistan-range
serve_get_so2_pakistan_range(r) ==
  IF r.method = "OPTIONS" THEN Preflight
  ELSE LET timeSeries == NationalSO2Series(2019, 2025)
       IN NationalSuccess(2019, 2025, timeSeries, {},
            NationalStats(Values(timeSeries), TRUE, 1, FALSE,
                          "December-January (Winter)", "July-August (Monsoon)"),
            << Insight("SO2 peaks in winter due to fossil fuel combustion and low atmospheric dispersion."),
               Insight("Industrial hubs (Karachi, Lahore, Faisalabad) are primary SO2 sources."),
               Insight("Monsoon season dilutes SO2 through atmospheric washout.") >>,
            "Sentinel-5P TROPOMI SO2 Column", "Sentinel-5P")

\* get-co-pakistan-range, drawing Math.random
serve_get_co_pakistan_range_random(r, e) ==
  IF r.method = "OPTIONS" THEN Preflight
  ELSE LET timeSeries == NationalCOSeries_random(2019, 2025, e)
       IN NationalSuccess(2019, 2025, timeSeries, {},
            NationalStats(Values(timeSeries), FALSE, 1, FALSE,
                          "November-December (Winter/Crop Burning)", "July-August (Monsoon)"),
            << Insight("CO peaks during winter and post-harvest crop burning in Punjab/Sindh."),
               Insight("Vehicular emissions and brick kilns are major CO contributors."),
               Insight("Monsoon rainfall helps reduce atmospheric CO concentrations.") >>,
            "Sentinel-5P TROPOMI CO Total Column", "")

NO2NationalInsights ==
  << Insight("NO2 is primarily from vehicular emissions and power generation."),
     Insight("COVID-19 lockdowns in 2020 caused ~25% reduction."),
     Insight("Winter inversions trap NO2 near the surface.") >>

\* get-no2-pakistan-range, drawing Math.random
serve_get_no2_pakistan_range_random(r, e) ==
  IF r.method = "OPTIONS" THEN Preflight
  ELSE LET timeSeries == NationalNO2Series_random(2019, 2025, e)
       IN NationalSuccess(2019, 2025, timeSeries, {},
            NationalStats(Values(timeSeries), FALSE, 100, TRUE,
                          "December-January (Winter)", "July-August (Monsoon)"),
            NO2NationalInsights, "Sentinel-5P TROPOMI NO2 Column", "")

\* get-no2-pakistan-range, seeded
serve_get_no2_pakistan_range(r) ==
  IF r.method = "OPTIONS" THEN Preflight
  ELSE LET timeSeries == NationalNO2Series_seeded(2019, 2025)
       IN NationalSuccess(2019, 2025, timeSeries, {},
            NationalStats(Values(timeSeries), TRUE, 100, TRUE,
                          "December-January (Winter)", "July-August (Monsoon)"),
            NO2NationalInsights, "Sentinel-5P TROPOMI NO2 Column", "Sentinel-5P")

(***************************************************************************)
(* The parameter table of the front end                                    *)
(***************************************************************************)
\* endpoint, min and max of each entry; min and max are held in the unit of
\* the values the endpoint returns: 1e-4 for NDVI, Aerosol Index, SO2 and CO,
\* 1e10 for NO2, whose values are whole multiples of 1e10, so that
\* value <= 0.0003 holds exactly when value <= 0
PARAMETERS ==
  [NDVI |-> [endpoint |-> "get-ndvi", satellite |-> "MODIS", min |-> -2000, max |-> 9000],
   AerosolIndex |-> [endpoint |-> "get-aerosol-index", satellite |-> "Sentinel-5P", min |-> -10000, max |-> 50000],
   NO2 |-> [endpoint |-> "get-no2", satellite |-> "Sentinel-5P", min |-> 0, max |-> 0],
   SO2 |-> [endpoint |-> "get-so2", satellite |-> "Sentinel-5P", min |-> 0, max |-> 10],
   CO |-> [endpoint |-> "get-co", satellite |-> "Sentinel-5P", min |-> 0, max |-> 500]]

(***************************************************************************)
(* Requests                                                                *)
(***************************************************************************)
PointHandlers ==
  {"get-ndvi", "get-ndvi@modis", "get-aerosol-index", "get-so2", "get-co", "get-co@random",
   "get-no2", "get-no2@random"}

NationalHandlers ==
  {"get-ndvi-pakistan-range", "get-ndvi-pakistan-range@random",
   "get-aerosol-pakistan-range", "get-aerosol-pakistan-range@random",
   "get-so2-pakistan-range", "get-co-pakistan-range@random",
   "get-no2-pakistan-range", "get-no2-pakistan-range@random"}

\* the points requests are made for: <<lat, lon>>
GeoPoints ==
  { <<3037530, 6934510>>,   \* the default of the control panel
    <<3150000, 7430000>>,   \* Lahore
    <<2490000, 6710000>>,   \* Karachi
    <<3500000, 7400000>>,   \* northern mountains
    <<3331000, 7271000>>,
    <<3500000, 6934510>>,
    <<2500000, 6934520>>,
    <<2350000, 6090000>>,   \* south-west corner of the box
    <<3710000, 7750000>>,   \* north-east corner of the box
    <<1000000, 1000000>>,
    <<2349990, 6090000>>,
    <<3710000, 7750010>> }

YearInputs == {Undefined} \cup {Num(y) : y \in 2019..MaxYear}

Body(lat, lon, startYear, endYear) ==
  [ok |-> TRUE, lat |-> lat, lon |-> lon, startYear |-> startYear, endYear |-> endYear]

\* a body that is not JSON
MalformedBody == [ok |-> FALSE, lat |-> Undefined, lon |-> Undefined, startYear |-> Undefined, endYear |-> Undefined]

PointBodies ==
  {Body(Num(p[1]), Num(p[2]), sy, ey) : p \in GeoPoints, sy \in YearInputs, ey \in YearInputs}
    \cup {Body(Str, Num(6934510), Undefined, Undefined),
          Body(Num(3037530), Undefined, Undefined, Undefined),
          MalformedBody}

NationalBodies ==
  {Body(Undefined, Undefined, Undefined, Undefined),
   Body(Num(1000000), Num(1000000), Num(MaxYear), Num(2019))}

NoRequest == [handler |-> "", method |-> "", body |-> MalformedBody]

\* what the environment decides for one invocation
Entropy == 0..MaxEntropy

GranuleFeeds(startYear) ==
  { <<Granule(startYear, 1, 1)>>,
    <<Granule(startYear, 1, 1), Granule(startYear, 1, 17), GranuleWithoutTimeStart, Granule(startYear, 2, 2)>> }

MODISEnvs(startYear) ==
  {[token |-> FALSE, cmr |-> "ok", entries |-> <<>>, e |-> 0]}
    \cup {[token |-> TRUE, cmr |-> c, entries |-> <<>>, e |-> e] : c \in {"throws", "not_ok", "ok"}, e \in Entropy}
    \cup {[token |-> TRUE, cmr |-> "ok", entries |-> f, e |-> e] : f \in GranuleFeeds(startYear), e \in Entropy}

(***************************************************************************)
(* The dashboard and the record stores before anything was done            *)
(***************************************************************************)
\* const drawnItems = new L.FeatureGroup() of a map just created: no layer.  current:
\* the effect of LeafletMap has run with the onShapeDrawn of the latest render of the page
NoLayers == [layers |-> <<>>, current |-> TRUE]

\* the nation-wide widget before a parameter is selected: not mounted
NoWidget ==
  [selectedParameter |-> "", isLoading |-> TRUE, error |-> "", yearlyData |-> <<>>,
   stats |-> NoStats, insights |-> <<>>, satellite |-> "", started |-> 0, fetches |-> {}]

\* let client: MongoClient | null = null, and no request being served
NoConnection == [client |-> "null", served |-> 0, requests |-> {}]

\* no geometry: null or undefined
NoGeometry == [type |-> "", coordinates |-> <<>>]

\* const [analysisResult, setAnalysisResult] = useState<any>(null)
NoResult == [parameter |-> ""]

\* no handleAnalyze is waiting for the backend
NoAnalysis == [selectedParameter |-> "", geometry |-> NoGeometry, geometryType |-> "", startYear |-> 0, endYear |-> 0]

\* const [drawnShape, setDrawnShape] = useState<DrawnShape | null>(null)
NoShape == [type |-> "", coordinates |-> <<>>, geoJSON |-> [geometry |-> NoGeometry]]

\* no toast was shown by the last operation
NoToast == [title |-> "", description |-> ""]

\* no file was handed to the browser by the last operation
NoFile == [filename |-> ""]

\* an empty store: its records in the order of insertion, and its clock, which also numbers the records
NoRecords == [docs |-> <<>>, clock |-> 0]

\* no store operation has replied
NoAnswer == [to |-> "", action |-> "", docs |-> <<>>]

(***************************************************************************)
(* The state machine: a request arrives, its handler answers it; the same  *)
(* request may be sent once more, to an independent invocation.            *)
(***************************************************************************)
Init ==
  /\ req = NoRequest
  /\ resp = NoResponse
  /\ first = NoResponse
  /\ steps = <<>>
  /\ pc = "idle"
  /\ panel = [isAnalyzing |-> FALSE, analysisResult |-> NoResult, analyzing |-> NoAnalysis]
  /\ drawnShape = NoShape
  /\ drawnItems = NoLayers
  /\ calls = 0
  /\ toast = NoToast
  /\ download = NoFile
  /\ table = NoRecords
  /\ mongo = NoRecords
  /\ answer = NoAnswer
  /\ widget = NoWidget
  /\ conn = NoConnection

Request(h, m, b) ==
  /\ pc = "idle"
  /\ req' = [handler |-> h, method |-> m, body |-> b]
  /\ resp' = NoResponse
  /\ first' = NoResponse
  /\ steps' = <<>>
  /\ pc' = "received"
  /\ UNCHANGED <<clientVars, storeVars, asideVars>>

Resend ==
  /\ pc = "answered"
  /\ resp' = NoResponse
  /\ steps' = <<>>
  /\ pc' = "received2"
  /\ UNCHANGED <<req, first, clientVars, storeVars, asideVars>>

\* the exchange is over; a handler keeps nothing of it
Close ==
  /\ pc \in {"answered", "answered2"}
  /\ req' = NoRequest
  /\ resp' = NoResponse
  /\ first' = NoResponse
  /\ steps' = <<>>
  /\ pc' = "idle"
  /\ UNCHANGED <<clientVars, storeVars, asideVars>>

\* the handler returns out
Respond(out) ==
  /\ pc \in {"received", "received2"}
  /\ resp' = out.resp
  /\ steps' = out.steps
  /\ first' = IF pc = "received" THEN out.resp ELSE first
  /\ pc' = IF pc = "received" THEN "answered" ELSE "answered2"
  /\ UNCHANGED <<req, clientVars, storeVars, asideVars>>

GetNdvi == req.handler = "get-ndvi" /\ Respond(serve_get_ndvi(req))

GetNdviModis ==
  /\ req.handler = "get-ndvi@modis"
  /\ \E env \in MODISEnvs(Default(req.body.startYear, 2019)) : Respond(serve_get_ndvi_modis(req, env))

GetAerosolIndex == req.handler = "get-aerosol-index" /\ Respond(serve_get_aerosol_index(req))

GetSo2 == req.handler = "get-so2" /\ Respond(serve_get_so2(req))

GetCo == req.handler = "get-co" /\ Respond(serve_get_co(req))

GetCoRandom == req.handler = "get-co@random" /\ \E e \in Entropy : Respond(serve_get_co_random(req, e))

GetNo2 == req.handler = "get-no2" /\ Respond(serve_get_no2(req))

GetNo2Random == req.handler = "get-no2@random" /\ \E e \in Entropy : Respond(serve_get_no2_random(req, e))

GetNdviPakistanRange ==
  req.handler = "get-ndvi-pakistan-range" /\ Respond(serve_get_ndvi_pakistan_range(req))

GetNdviPakistanRangeRandom ==
  /\ req.handler = "get-ndvi-pakistan-range@random"
  /\ \E e \in Entropy : Respond(serve_get_ndvi_pakistan_range_random(req, e))

GetAerosolPakistanRange ==
  req.handler = "get-aerosol-pakistan-range" /\ Respond(serve_get_aerosol_pakistan_range(req))

GetAerosolPakistanRangeRandom ==
  /\ req.handler = "get-aerosol-pakistan-range@random"
  /\ \E e \in Entropy : Respond(serve_get_aerosol_pakistan_range_random(req, e))

GetSo2PakistanRange ==
  req.handler = "get-so2-pakistan-range" /\ Respond(serve_get_so2_pakistan_range(req))

GetCoPakistanRangeRandom ==
  /\ req.handler = "get-co-pakistan-range@random"
  /\ \E e \in Entropy : Respond(serve_get_co_pakistan_range_random(req, e))

GetNo2PakistanRange ==
  req.handler = "get-no2-pakistan-range" /\ Respond(serve_get_no2_pakistan_range(req))

GetNo2PakistanRangeRandom ==
  /\ req.handler = "get-no2-pakistan-range@random"
  /\ \E e \in Entropy : Respond(serve_get_no2_pakistan_range_random(req, e))

Next ==
  \/ \E h \in PointHandlers, m \in {"POST", "OPTIONS"}, b \in PointBodies : Request(h, m, b)
  \/ \E h \in NationalHandlers, m \in {"POST", "OPTIONS"}, b \in NationalBodies : Request(h, m, b)
  \/ Resend
  \/ Close
  \/ GetNdvi
  \/ GetNdviModis
  \/ GetAerosolIndex
  \/ GetSo2
  \/ GetCo
  \/ GetCoRandom
  \/ GetNo2
  \/ GetNo2Random
  \/ GetNdviPakistanRange
  \/ GetNdviPakistanRangeRandom
  \/ GetAerosolPakistanRange
  \/ GetAerosolPakistanRangeRandom
  \/ GetSo2PakistanRange
  \/ GetCoPakistanRangeRandom
  \/ GetNo2PakistanRange
  \/ GetNo2PakistanRangeRandom

Spec == Init /\ [][Next]_vars

(***************************************************************************)
(* The dashboard: the map (LeafletMap), the page that keeps the drawn      *)
(* shape (Dashboard) and the control panel (ControlPanel).                 *)
(* A position of a GeoJSON geometry is <<lon, lat>>; the coordinates of a  *)
(* geometry are kept as a sequence of positions (one position for a Point, *)
(* the ring for a Polygon).  A point of the map is <<lat, lon>>.           *)
(***************************************************************************)
\* the function a name of supabase.functions.invoke reaches: any version of it
Serves(h, endpoint) == h \in {endpoint, endpoint \o "@random", endpoint \o "@modis"}

ParameterType == DOMAIN PARAMETERS

\* { type: 'Point', coordinates: [lon, lat] }, also marker.toGeoJSON().geometry
PointGeometry(lat, lon) == [type |-> "Point", coordinates |-> << <<lon, lat>> >>]

\* polygon.toGeoJSON().geometry: the ring is closed, its first position is repeated at the end
PolygonGeometry(latlngs) ==
  [type |-> "Polygon",
   coordinates |-> [i \in 1..(Len(latlngs) + 1) |->
                      LET p == latlngs[IF i > Len(latlngs) THEN 1 ELSE i] IN <<p[2], p[1]>>]]

\* shape = { type: e.layerType, coordinates: coords, geoJSON }
PolygonShape(latlngs) ==
  [type |-> "polygon", coordinates |-> latlngs, geoJSON |-> [geometry |-> PolygonGeometry(latlngs)]]

\* { type: 'marker', coordinates: [lat, lng], geoJSON: marker.toGeoJSON() }
MarkerShape(lat, lon) ==
  [type |-> "marker", coordinates |-> << <<lat, lon>> >>, geoJSON |-> [geometry |-> PointGeometry(lat, lon)]]

\* for (const latlng of latlngs) if (!isPointInsidePakistan(latlng.lat, latlng.lng)) return false
isShapeInsidePakistan(latlngs) ==
  \A i \in 1..Len(latlngs) : isPointInsidePakistan(latlngs[i][1], latlngs[i][2])

\* the polygons drawn on the map: their vertices, as <<lat, lon>>
DrawnPolygons ==
  { << <<3500600, 7400600>>, <<3499700, 7399100>>, <<3499100, 7399700>> >>,   \* a triangle in the north
    << <<2400000, 6200000>>, <<1000000, 1000000>>, <<2400000, 6300000>> >> }  \* one vertex outside the box

\* the text of a coordinate field and parseFloat of it (nan: NaN)
CoordTexts == {"", "abc", "10", "30.3753", "69.3451"}

parseFloat(text) ==
  CASE text = "30.3753" -> [nan |-> FALSE, v |-> 3037530]
    [] text = "69.3451" -> [nan |-> FALSE, v |-> 6934510]
    [] text = "10" -> [nan |-> FALSE, v |-> 1000000]
    [] OTHER -> [nan |-> TRUE, v |-> 0]

\* const [selectedDistrict, setSelectedDistrict] = useState<PakistanDistrict | null>(null)
NoDistrict == [name |-> "", lat |-> 0, lon |-> 0]

\* entries of PAKISTAN_DISTRICTS: the table is not among these sources, an entry is any named point
PAKISTAN_DISTRICTS ==
  { [name |-> "Lahore", lat |-> 3150000, lon |-> 7430000],
    [name |-> "Elsewhere", lat |-> 1000000, lon |-> 1000000] }

\* what the user has set in the panel when a button is pressed
Form(selectedParameter, inputMode, coordLat, coordLng, selectedDistrict, endYear) ==
  [selectedParameter |-> selectedParameter, inputMode |-> inputMode, coordLat |-> coordLat,
   coordLng |-> coordLng, selectedDistrict |-> selectedDistrict, startYear |-> 2019, endYear |-> endYear]

Forms ==
  LET areas ==
        {<<"draw", "30.3753", "69.3451", NoDistrict>>}
          \cup {<<"coordinates", t, "69.3451", NoDistrict>> : t \in {"", "abc", "30.3753"}}
          \cup {<<"coordinates", "10", "10", NoDistrict>>}
          \cup {<<"district", "30.3753", "69.3451", d>> : d \in PAKISTAN_DISTRICTS \cup {NoDistrict}}
  IN {Form(sp, a[1], a[2], a[3], a[4], ey) :
        sp \in ParameterType \cup {""}, a \in areas, ey \in {2019, MaxYear}}

\* the effect that validates the coordinate fields; the Analyze button is disabled while it holds
validationError(form) ==
  /\ form.inputMode = "coordinates" /\ form.coordLat # "" /\ form.coordLng # ""
  /\ ~parseFloat(form.coordLat).nan /\ ~parseFloat(form.coordLng).nan
  /\ ~isInsidePakistan_panel(parseFloat(form.coordLat).v, parseFloat(form.coordLng).v)

\* the mean of the numbers of a ring, sum / points.length; the polygons of the
\* model have rings whose sums are multiples of their lengths
RECURSIVE SumOf(_, _)
SumOf(points, k) == IF Len(points) = 0 THEN 0 ELSE points[1][k] + SumOf(Tail(points), k)

RingMean(points, k) == SumOf(points, k) \div Len(points)

\* the locals of handleAnalyze once the area was read: hasValidArea, geometry,
\* geometryType, lat, lon (known: not null), and whether addMarker was called
NoArea ==
  [hasValidArea |-> FALSE, geometry |-> NoGeometry, geometryType |-> "", known |-> FALSE,
   lat |-> 0, lon |-> 0, addMarker |-> FALSE]

AreaOf(form, shape) ==
  IF form.inputMode = "draw" /\ shape # NoShape THEN
    LET g == shape.geoJSON.geometry
    IN IF g.type = "Point"
       THEN [NoArea EXCEPT !.hasValidArea = TRUE, !.geometry = g, !.geometryType = shape.type,
                           !.known = TRUE, !.lat = g.coordinates[1][2], !.lon = g.coordinates[1][1]]
       ELSE IF g.type = "Polygon"
       THEN [NoArea EXCEPT !.hasValidArea = TRUE, !.geometry = g, !.geometryType = shape.type,
                           !.known = TRUE, !.lat = RingMean(g.coordinates, 2),
                           !.lon = RingMean(g.coordinates, 1)]
       ELSE [NoArea EXCEPT !.hasValidArea = TRUE, !.geometry = g, !.geometryType = shape.type]
  ELSE IF form.inputMode = "coordinates" /\ form.coordLat # "" /\ form.coordLng # "" THEN
    LET lat == parseFloat(form.coordLat)
        lon == parseFloat(form.coordLng)
    IN IF ~lat.nan /\ ~lon.nan
       THEN [NoArea EXCEPT !.hasValidArea = TRUE, !.geometry = PointGeometry(lat.v, lon.v),
                           !.geometryType = "point", !.known = TRUE, !.lat = lat.v, !.lon = lon.v,
                           !.addMarker = TRUE]
       ELSE [NoArea EXCEPT !.known = TRUE]
  ELSE IF form.inputMode = "district" /\ form.selectedDistrict # NoDistrict THEN
    LET d == form.selectedDistrict
    IN [NoArea EXCEPT !.hasValidArea = TRUE, !.geometry = PointGeometry(d.lat, d.lon),
                      !.geometryType = "district", !.known = TRUE, !.lat = d.lat, !.lon = d.lon,
                      !.addMarker = TRUE]
  ELSE NoArea

\* a number of a JSON body: NaN and the infinities are written as null
Null == [k |-> "null", v |-> 0]

JSONNumber(x) == IF x.k = "finite" THEN x ELSE Null

\* x || 0 of a member of data.stats: 0 when the member is missing, null or 0
OrZero(stats, key, x) == IF key \in stats.keys /\ x.k = "finite" THEN x ELSE Finite(0)

\* { data, error } of supabase.functions.invoke: a response outside 2xx comes back
\* as an error with the message of the client library and no data
NonOkMessage == "Edge Function returned a non-2xx status code"

FetchErrorMessage == "Failed to send a request to the Edge Function"

invoke(response) ==
  IF response.status \in 200..299
  THEN [error |-> "", data |-> response]
  ELSE [error |-> NonOkMessage, data |-> NoResponse]

\* const result = { parameter, timeSeries, stats, insights, startDate, endDate, geometry, geometryType, source, satellite }
AnalysisResult(analyzing, data) ==
  [parameter |-> analyzing.selectedParameter,
   timeSeries |-> data.timeSeries,
   stats |-> [mean |-> JSONNumber(data.stats.mean), min |-> JSONNumber(data.stats.min),
              max |-> JSONNumber(data.stats.max),
              stdDev |-> OrZero(data.stats, "stdDev", data.stats.stdDev),
              trend |-> OrZero(data.stats, "trendPercent", data.stats.trendPercent)],
   insights |-> data.insights,
   startYear |-> analyzing.startYear, endYear |-> analyzing.endYear,
   geometry |-> analyzing.geometry, geometryType |-> analyzing.geometryType,
   source |-> data.source,
   satellite |-> IF data.satellite # "" THEN data.satellite
                 ELSE PARAMETERS[analyzing.selectedParameter].satellite]

Toast(title, description) == [title |-> title, description |-> description]

\* window.leafletMapMethods.addMarker(lat, lng): the marker replaces the drawn shape
addMarker(area) == IF area.addMarker THEN MarkerShape(area.lat, area.lon) ELSE drawnShape

\* the feature group once a shape was put on the map and reported: onShapeDrawn is
\* handleShapeDrawn of the page, whose setDrawnShape makes the page render anew
Reported(shape) == [layers |-> <<shape>>, current |-> FALSE]

\* drawnItems.clearLayers(); drawnItems.addLayer(marker) of addMarker
addMarker_layers(area) == IF area.addMarker THEN Reported(MarkerShape(area.lat, area.lon)) ELSE drawnItems

\* a return that also clears the displayed result
ReturnWithToast_clearingResult(title, description, area) ==
  /\ toast' = Toast(title, description)
  /\ drawnShape' = addMarker(area)
  /\ drawnItems' = addMarker_layers(area)
  /\ download' = NoFile
  /\ panel' = [panel EXCEPT !.analysisResult = NoResult]
  /\ UNCHANGED <<req, resp, first, steps, pc, calls, storeVars, asideVars>>

\* handleAnalyze returns after a toast
ReturnWithToast(title, description, area) ==
  /\ toast' = Toast(title, description)
  /\ drawnShape' = addMarker(area)
  /\ drawnItems' = addMarker_layers(area)
  /\ download' = NoFile
  /\ UNCHANGED <<req, resp, first, steps, pc, panel, calls, storeVars, asideVars>>

\* the toast handleAnalyze returns with before it reaches the backend; none: the title is ""
LocalRejection(form, shape) ==
  LET area == AreaOf(form, shape)
  IN IF form.selectedParameter = ""
     THEN Toast("No indicator selected", "Please select an environmental parameter first.")
     ELSE IF ~area.hasValidArea \/ ~area.known
     THEN Toast("No area selected", "Please draw a shape, enter coordinates, or select a district.")
     ELSE IF ~isInsidePakistan_panel(area.lat, area.lon)
     THEN Toast("Location outside Pakistan", "This service only provides data for locations within Pakistan.")
     ELSE NoToast

\* an Analyze button that stays enabled during an analysis
AnalyzeDisabled_onValidationOnly(form) == validationError(form)

\* the Analyze button: disabled={isAnalyzing || !!validationError}
AnalyzeDisabled(form) == panel.isAnalyzing \/ validationError(form)

\* handleAnalyze up to its await, run by a click on the Analyze button
handleAnalyze(form) ==
  /\ ~AnalyzeDisabled(form)
  /\ LET area == AreaOf(form, drawnShape)
         rejection == LocalRejection(form, drawnShape)
     IN IF rejection # NoToast
        THEN ReturnWithToast(rejection.title, rejection.description,
                             IF form.selectedParameter = "" THEN NoArea ELSE area)
        ELSE /\ calls < MaxCalls
             /\ \E h \in PointHandlers :
                  /\ Serves(h, PARAMETERS[form.selectedParameter].endpoint)
                  /\ req' = [handler |-> h, method |-> "POST",
                             body |-> Body(Num(area.lat), Num(area.lon), Num(form.startYear), Num(form.endYear))]
             /\ resp' = NoResponse
             /\ first' = NoResponse
             /\ steps' = <<>>
             /\ pc' = "received"
             /\ calls' = calls + 1
             /\ panel' = [panel EXCEPT !.isAnalyzing = TRUE,
                                       !.analyzing = [selectedParameter |-> form.selectedParameter,
                                                      geometry |-> area.geometry,
                                                      geometryType |-> area.geometryType,
                                                      startYear |-> form.startYear, endYear |-> form.endYear]]
             /\ drawnShape' = addMarker(area)
             /\ drawnItems' = addMarker_layers(area)
             /\ toast' = NoToast
             /\ download' = NoFile
             /\ UNCHANGED <<storeVars, asideVars>>

\* the catch and finally blocks of handleAnalyze
AnalysisFailed(message) ==
  /\ toast' = Toast("Analysis failed", message)
  /\ panel' = [panel EXCEPT !.isAnalyzing = FALSE, !.analyzing = NoAnalysis]

\* the exchange with the backend is over
Settled ==
  /\ req' = NoRequest
  /\ resp' = NoResponse
  /\ first' = NoResponse
  /\ steps' = <<>>
  /\ pc' = "idle"
  /\ download' = NoFile
  /\ UNCHANGED <<drawnShape, drawnItems, calls, storeVars, asideVars>>

\* the request did not reach a function: invoke resolves with an error
handleAnalyze_fetchError ==
  /\ pc = "received"
  /\ panel.isAnalyzing
  /\ AnalysisFailed(FetchErrorMessage)
  /\ Settled

\* handleAnalyze after its await
handleAnalyze_resumed ==
  /\ pc = "answered"
  /\ panel.isAnalyzing
  /\ LET r == invoke(resp)
     IN IF r.error # "" THEN AnalysisFailed(r.error)
        ELSE IF "error" \in r.data.keys /\ r.data.error # "" THEN AnalysisFailed(r.data.error)
        ELSE /\ panel' = [isAnalyzing |-> FALSE, analyzing |-> NoAnalysis,
                          analysisResult |-> AnalysisResult(panel.analyzing, r.data)]
             /\ toast' = Toast("Analysis complete", r.data.source)
  /\ Settled

\* 'Date,Value\n' + timeSeries.map(d => `${d.date},${d.value}`).join('\n')
CSV(timeSeries) == [i \in 1..Len(timeSeries) |-> <<timeSeries[i].date, timeSeries[i].value>>]

\* { type: 'FeatureCollection', features: [{ type: 'Feature', properties: { parameter, stats, timeSeries }, geometry }] }
GeoJSONExport(result, shape) ==
  [type |-> "FeatureCollection",
   features |-> << [type |-> "Feature",
                    properties |-> [parameter |-> result.parameter, stats |-> result.stats,
                                    timeSeries |-> result.timeSeries],
                    geometry |-> IF shape # NoShape /\ shape.geoJSON.geometry # NoGeometry
                                 THEN shape.geoJSON.geometry
                                 ELSE PointGeometry(0, 0)] >>]

\* downloadFile(content, filename, mimeType); the name is `${parameter.id}_${startDate}_${endDate}` and an extension
File(result, extension, mimeType, content) ==
  [filename |-> <<result.parameter, result.startYear, result.endYear, extension>>,
   mimeType |-> mimeType, content |-> content]

handleExport(formatId) ==
  /\ pc = "idle"
  /\ panel.analysisResult # NoResult
  /\ CASE formatId = "csv" ->
            /\ download' = File(panel.analysisResult, ".csv", "text/csv", CSV(panel.analysisResult.timeSeries))
            /\ toast' = Toast("Export successful", "CSV")
       [] formatId = "geojson" ->
            /\ download' = File(panel.analysisResult, ".geojson", "application/geo+json",
                                GeoJSONExport(panel.analysisResult, drawnShape))
            /\ toast' = Toast("Export successful", "GEOJSON")
       [] formatId = "shapefile" ->
            /\ download' = NoFile
            /\ toast' = Toast("Shapefile Export", "Shapefile export requires server-side processing. Coming soon!")
  /\ UNCHANGED <<req, resp, first, steps, pc, panel, drawnShape, drawnItems, calls, storeVars, asideVars>>

\* map.on(L.Draw.Event.CREATED): a polygon with a vertex outside the box is not kept
DrawCreated(latlngs) ==
  /\ pc = "idle"
  /\ drawnShape' = IF isShapeInsidePakistan(latlngs) THEN PolygonShape(latlngs) ELSE drawnShape
  /\ drawnItems' = IF isShapeInsidePakistan(latlngs) THEN Reported(PolygonShape(latlngs)) ELSE drawnItems
  /\ toast' = NoToast
  /\ download' = NoFile
  /\ UNCHANGED <<req, resp, first, steps, pc, panel, calls, storeVars, asideVars>>

\* map.on(L.Draw.Event.DELETED, () => onShapeDrawn?.(null))
DrawDeleted ==
  /\ pc = "idle"
  /\ drawnItems.layers # <<>>
  /\ drawnShape' = NoShape
  /\ drawnItems' = [layers |-> <<>>, current |-> drawnItems.current /\ drawnShape = NoShape]
  /\ toast' = NoToast
  /\ download' = NoFile
  /\ UNCHANGED <<req, resp, first, steps, pc, panel, calls, storeVars, asideVars>>

\* the page is left: the component state is gone
Unmount ==
  /\ pc = "idle"
  /\ calls > 0
  /\ panel' = [isAnalyzing |-> FALSE, analysisResult |-> NoResult, analyzing |-> NoAnalysis]
  /\ drawnShape' = NoShape
  /\ drawnItems' = NoLayers
  /\ calls' = 0
  /\ toast' = NoToast
  /\ download' = NoFile
  /\ UNCHANGED <<req, resp, first, steps, pc, storeVars, asideVars>>

PanelNext ==
  \/ \E form \in Forms : handleAnalyze(form)
  \/ handleAnalyze_fetchError
  \/ handleAnalyze_resumed
  \/ \E formatId \in {"csv", "geojson", "shapefile"} : handleExport(formatId)
  \/ \E latlngs \in DrawnPolygons : DrawCreated(latlngs)
  \/ DrawDeleted
  \/ Unmount
  \/ GetNdvi
  \/ GetNdviModis
  \/ GetAerosolIndex
  \/ GetSo2
  \/ GetCo
  \/ GetCoRandom
  \/ GetNo2
  \/ GetNo2Random

PanelSpec == Init /\ [][PanelNext]_vars


(***************************************************************************)
(* The stores of analysis records: the analysis_history table behind       *)
(* lib/mongodb.ts and the collection behind the mongodb function.          *)
(* A record is [_id, userId, parameter, createdAt, updatedAt]; parameter   *)
(* stands for the saved analysis (parameter, geometry, dates, results).    *)
(* A member that is absent is "" (0 for a time or an id).                  *)
(* The caller of an operation acts as the user whose id it passes.         *)
(***************************************************************************)
Users == {"A", "B"}

\* the data member of a request: an analysis, which may carry a userId of its own
Datas ==
  { [parameter |-> "NDVI", userId |-> ""],
    [parameter |-> "CO", userId |-> ""],
    [parameter |-> "CO", userId |-> "B"] }

\* the filter member of a request; {} is [_id |-> 0, userId |-> ""]
Filters == {[_id |-> i, userId |-> u] : i \in 0..1, u \in Users \cup {""}}

Matches(doc, filter) ==
  /\ filter._id = 0 \/ doc._id = filter._id
  /\ filter.userId = "" \/ doc.userId = filter.userId

\* the documents that satisfy a filter, in their order
RECURSIVE Select(_, _)
Select(docs, filter) ==
  IF Len(docs) = 0 THEN <<>>
  ELSE (IF Matches(docs[1], filter) THEN <<docs[1]>> ELSE <<>>) \o Select(Tail(docs), filter)

\* the position of the first document that satisfies the filter, 0 if none does
RECURSIVE FirstMatch(_, _, _)
FirstMatch(docs, filter, i) ==
  IF i > Len(docs) THEN 0 ELSE IF Matches(docs[i], filter) THEN i ELSE FirstMatch(docs, filter, i + 1)

Without(docs, i) == [j \in 1..(Len(docs) - 1) |-> IF j < i THEN docs[j] ELSE docs[j + 1]]

\* .sort({ createdAt: -1 }) and .order('created_at', { ascending: false }): records
\* are kept in the order of their creation, so the sort reverses them
Newest(docs) == [i \in 1..Len(docs) |-> docs[Len(docs) + 1 - i]]

Reply(userId, action, docs) == [to |-> userId, action |-> action, docs |-> docs]

\* a write: the clock of the store advances; it also numbers the records
Written(store, docs) == [docs |-> docs, clock |-> store.clock + 1]

\* a store operation touches nothing of the handlers and of the dashboard
StoreStep == pc = "idle" /\ UNCHANGED <<req, resp, first, steps, pc, clientVars, asideVars>>

MayWrite == table.clock + mongo.clock < MaxWrites

\* ---- lib/mongodb.ts: the analysis_history table ----
saveAnalysis(userId, analysisData) ==
  /\ StoreStep
  /\ MayWrite
  /\ LET row == [_id |-> table.clock + 1, userId |-> userId, parameter |-> analysisData.parameter,
                 createdAt |-> table.clock + 1, updatedAt |-> 0]
     IN /\ table' = Written(table, Append(table.docs, row))
        /\ answer' = Reply(userId, "lib.saveAnalysis", <<row>>)
  /\ UNCHANGED mongo

getAnalysisHistory(userId) ==
  /\ StoreStep
  /\ answer' = Reply(userId, "lib.getAnalysisHistory",
                     Newest(Select(table.docs, [_id |-> 0, userId |-> userId])))
  /\ UNCHANGED <<table, mongo>>

\* .delete().eq('id', analysisId).eq('user_id', userId)
deleteAnalysis(userId, analysisId) ==
  /\ StoreStep
  /\ MayWrite
  /\ LET i == FirstMatch(table.docs, [_id |-> analysisId, userId |-> userId], 1)
     IN table' = Written(table, IF i = 0 THEN table.docs ELSE Without(table.docs, i))
  /\ answer' = Reply(userId, "lib.deleteAnalysis", <<>>)
  /\ UNCHANGED mongo

\* ---- the mongodb function: handleAction, one action per case; the requests
\* ---- of the model name the collection of analysis records
\* const document = { ...data, createdAt: now, updatedAt: now }
mongo_insertOne(userId, data) ==
  /\ StoreStep
  /\ MayWrite
  /\ LET document == [_id |-> mongo.clock + 1, userId |-> data.userId, parameter |-> data.parameter,
                      createdAt |-> mongo.clock + 1, updatedAt |-> mongo.clock + 1]
     IN mongo' = Written(mongo, Append(mongo.docs, document))
  /\ answer' = Reply(userId, "insertOne", <<>>)
  /\ UNCHANGED table

mongo_findOne(userId, filter) ==
  /\ StoreStep
  /\ LET i == FirstMatch(mongo.docs, filter, 1)
     IN answer' = Reply(userId, "findOne", IF i = 0 THEN <<>> ELSE <<mongo.docs[i]>>)
  /\ UNCHANGED <<table, mongo>>

mongo_find(userId, filter) ==
  /\ StoreStep
  /\ answer' = Reply(userId, "find", Select(mongo.docs, filter))
  /\ UNCHANGED <<table, mongo>>

\* the document after { $set: { ...data, updatedAt: now } }
Set(doc, data, now) ==
  [doc EXCEPT !.parameter = IF data.parameter = "" THEN @ ELSE data.parameter,
              !.userId = IF data.userId = "" THEN @ ELSE data.userId,
              !.updatedAt = now]

mongo_updateOne(userId, filter, data) ==
  /\ StoreStep
  /\ MayWrite
  /\ LET i == FirstMatch(mongo.docs, filter, 1)
     IN mongo' = Written(mongo, IF i = 0 THEN mongo.docs
                               ELSE [mongo.docs EXCEPT ![i] = Set(@, data, mongo.clock + 1)])
  /\ answer' = Reply(userId, "updateOne", <<>>)
  /\ UNCHANGED table

mongo_deleteOne(userId, filter) ==
  /\ StoreStep
  /\ MayWrite
  /\ LET i == FirstMatch(mongo.docs, filter, 1)
     IN mongo' = Written(mongo, IF i = 0 THEN mongo.docs ELSE Without(mongo.docs, i))
  /\ answer' = Reply(userId, "deleteOne", <<>>)
  /\ UNCHANGED table

\* updateOne({ userId }, { $set: { ...data, userId, updatedAt: now }, $setOnInsert: { createdAt: now } }, { upsert: true })
mongo_upsertProfile(userId, data) ==
  /\ StoreStep
  /\ MayWrite
  /\ LET i == FirstMatch(mongo.docs, [_id |-> 0, userId |-> userId], 1)
         now == mongo.clock + 1
         set == [data EXCEPT !.userId = userId]
     IN mongo' = Written(mongo,
                   IF i = 0
                   THEN Append(mongo.docs, [_id |-> now, userId |-> userId, parameter |-> data.parameter,
                                            createdAt |-> now, updatedAt |-> now])
                   ELSE [mongo.docs EXCEPT ![i] = Set(@, set, now)])
  /\ answer' = Reply(userId, "upsertProfile", <<>>)
  /\ UNCHANGED table

mongo_getProfile(userId) ==
  /\ StoreStep
  /\ LET i == FirstMatch(mongo.docs, [_id |-> 0, userId |-> userId], 1)
     IN answer' = Reply(userId, "getProfile", IF i = 0 THEN <<>> ELSE <<mongo.docs[i]>>)
  /\ UNCHANGED <<table, mongo>>

\* const document = { userId, ...data, createdAt: now }: a userId of data replaces the one of the request
mongo_saveAnalysis(userId, data) ==
  /\ StoreStep
  /\ MayWrite
  /\ LET document == [_id |-> mongo.clock + 1,
                      userId |-> IF data.userId = "" THEN userId ELSE data.userId,
                      parameter |-> data.parameter, createdAt |-> mongo.clock + 1, updatedAt |-> 0]
     IN mongo' = Written(mongo, Append(mongo.docs, document))
  /\ answer' = Reply(userId, "saveAnalysis", <<>>)
  /\ UNCHANGED table

mongo_getAnalysisHistory(userId) ==
  /\ StoreStep
  /\ answer' = Reply(userId, "getAnalysisHistory", Newest(Select(mongo.docs, [_id |-> 0, userId |-> userId])))
  /\ UNCHANGED <<table, mongo>>

\* deleteOne({ _id: new ObjectId(filter?._id), userId }); without an _id a fresh ObjectId matches nothing
mongo_deleteAnalysis(userId, filter) ==
  /\ StoreStep
  /\ MayWrite
  /\ LET i == IF filter._id = 0 THEN 0 ELSE FirstMatch(mongo.docs, [_id |-> filter._id, userId |-> userId], 1)
     IN mongo' = Written(mongo, IF i = 0 THEN mongo.docs ELSE Without(mongo.docs, i))
  /\ answer' = Reply(userId, "deleteAnalysis", <<>>)
  /\ UNCHANGED table

StoreNext ==
  \/ \E userId \in Users, analysisData \in Datas : saveAnalysis(userId, analysisData)
  \/ \E userId \in Users : getAnalysisHistory(userId)
  \/ \E userId \in Users, analysisId \in 1..MaxWrites : deleteAnalysis(userId, analysisId)
  \/ \E userId \in Users, data \in Datas : mongo_insertOne(userId, data)
  \/ \E userId \in Users, filter \in Filters : mongo_findOne(userId, filter)
  \/ \E userId \in Users, filter \in Filters : mongo_find(userId, filter)
  \/ \E userId \in Users, filter \in Filters, data \in Datas : mongo_updateOne(userId, filter, data)
  \/ \E userId \in Users, filter \in Filters : mongo_deleteOne(userId, filter)
  \/ \E userId \in Users, data \in Datas : mongo_upsertProfile(userId, data)
  \/ \E userId \in Users : mongo_getProfile(userId)
  \/ \E userId \in Users, data \in Datas : mongo_saveAnalysis(userId, data)
  \/ \E userId \in Users : mongo_getAnalysisHistory(userId)
  \/ \E userId \in Users, filter \in Filters : mongo_deleteAnalysis(userId, filter)

StoreSpec == Init /\ [][StoreNext]_vars

(***************************************************************************)
(* Save to History: the control panel hands the displayed analysis to      *)
(* addAnalysis, which writes it with saveAnalysis of lib/mongodb.ts for    *)
(* the signed-in user.  A date is the year of the date field.              *)
(***************************************************************************)
\* startDate and endDate are the date fields on the screen when the button is pressed
handleSaveAnalysis(startDate, endDate, userId) ==
  /\ panel.analysisResult # NoResult
  /\ table.clock < MaxSaves
  /\ LET analysisData ==
           [parameter |-> panel.analysisResult.parameter,
            geometry |-> panel.analysisResult.geometry,
            geometryType |-> panel.analysisResult.geometryType,
            startDate |-> startDate,
            endDate |-> endDate,
            results |-> [timeSeries |-> panel.analysisResult.timeSeries,
                         stats |-> panel.analysisResult.stats,
                         insights |-> panel.analysisResult.insights]]
         row == [_id |-> table.clock + 1, userId |-> userId, parameter |-> analysisData.parameter,
                 geometry |-> analysisData.geometry, geometryType |-> analysisData.geometryType,
                 startDate |-> analysisData.startDate, endDate |-> analysisData.endDate,
                 results |-> analysisData.results, createdAt |-> table.clock + 1, updatedAt |-> 0]
     IN table' = Written(table, Append(table.docs, row))
  /\ UNCHANGED <<req, resp, first, steps, pc, clientVars, mongo, answer, asideVars>>

\* the date fields a form can hold: <<startDate, endDate>>
DateFields == {<<form.startYear, form.endYear>> : form \in Forms}

\* the dashboard up to the saves of a session
HistoryNext ==
  \/ table = NoRecords /\ PanelNext
  \/ \E dates \in DateFields : \E userId \in Users : handleSaveAnalysis(dates[1], dates[2], userId)

HistorySpec == Init /\ [][HistoryNext]_vars

(***************************************************************************)
(* Properties                                                              *)
(***************************************************************************)
Answered == pc \in {"answered", "answered2"}

\* a POST whose body parsed and whose lat and lon are numbers, sent to a per-point handler
NumericPointRequest ==
  /\ req.handler \in PointHandlers
  /\ req.method = "POST"
  /\ req.body.ok
  /\ req.body.lat.t = "number"
  /\ req.body.lon.t = "number"

\* 23.5 <= lat <= 37.1 and 60.9 <= lon <= 77.5
InsideBox(lat, lon) == lat >= 2350000 /\ lat <= 3710000 /\ lon >= 6090000 /\ lon <= 7750000

TheBox == [minLat |-> 2350000, maxLat |-> 3710000, minLon |-> 6090000, maxLon |-> 7750000]

RejectedOutOfBounds ==
  /\ resp.status = 400
  /\ {"error", "bounds"} \subseteq resp.keys
  /\ resp.error = "Location outside Pakistan"
  /\ resp.bounds = TheBox

NothingSynthesized ==
  /\ \A i \in 1..Len(steps) : steps[i] \notin {"synthesize", "stats", "respond"}
  /\ "timeSeries" \notin resp.keys
  /\ resp.timeSeries = <<>>

\* C3: a per-point request with a numeric point outside the box is answered
\* with status 400, an error and the box, and no series is synthesized for
\* it; a request with a point inside the box is never rejected as out of
\* bounds; (10, 10) is rejected and (30.3753, 69.3451) is accepted.
C3_OutOfBoundsRejected ==
  (Answered /\ NumericPointRequest) =>
    /\ ~InsideBox(req.body.lat.v, req.body.lon.v) => (RejectedOutOfBounds /\ NothingSynthesized)
    /\ InsideBox(req.body.lat.v, req.body.lon.v) =>
         (resp.status # 400 /\ "bounds" \notin resp.keys /\ resp.error # "Location outside Pakistan")
    /\ (req.body.lat.v = 1000000 /\ req.body.lon.v = 1000000) => RejectedOutOfBounds
    /\ (req.body.lat.v = 3037530 /\ req.body.lon.v = 6934510) => ~RejectedOutOfBounds

\* the request for (10, 10) has been rejected
C3_Witness ==
  /\ Answered /\ NumericPointRequest
  /\ req.body.lat.v = 1000000 /\ req.body.lon.v = 1000000
  /\ RejectedOutOfBounds /\ NothingSynthesized

\* C4: every copy of the validator (each backend handler's, the control
\* panel's, the map component's) answers true exactly when
\* 23.5 <= lat <= 37.1 and 60.9 <= lon <= 77.5, borders included, and the
\* handler that received the point acted on that answer.
C4_ValidatorCopiesAgree ==
  NumericPointRequest =>
    LET lat == req.body.lat.v
        lon == req.body.lon.v
        verdicts == { isInsidePakistan_ndvi(lat, lon), isInsidePakistan_aerosol(lat, lon),
                      isInsidePakistan_modis(lat, lon), isInsidePakistan_so2(lat, lon),
                      isInsidePakistan_co(lat, lon), isInsidePakistan_co_random(lat, lon),
                      isInsidePakistan_no2(lat, lon), isInsidePakistan_no2_random(lat, lon),
                      isInsidePakistan_panel(lat, lon), isPointInsidePakistan(lat, lon) }
    IN /\ verdicts = {InsideBox(lat, lon)}
       /\ Answered => (("bounds" \in resp.keys) <=> ~InsideBox(lat, lon))

\* a point on the north-east corner of the box has been accepted by its handler
C4_Witness ==
  /\ Answered /\ NumericPointRequest
  /\ req.body.lat.v = 3710000 /\ req.body.lon.v = 7750000
  /\ isInsidePakistan_panel(req.body.lat.v, req.body.lon.v)
  /\ isPointInsidePakistan(req.body.lat.v, req.body.lon.v)
  /\ resp.status = 200 /\ "timeSeries" \in resp.keys

PointSucceeded == Answered /\ req.handler \in PointHandlers /\ resp.status = 200 /\ "timeSeries" \in resp.keys

NationalSucceeded ==
  Answered /\ req.handler \in NationalHandlers /\ resp.status = 200 /\ "nationalTimeSeries" \in resp.keys

\* C1: two independent invocations of a per-point handler with the same
\* in-bounds (lat, lon, startYear, endYear) return the same timeSeries:
\* every date, value, min and max are equal.
C1_PerPointDeterminism ==
  (pc = "answered2" /\ PointSucceeded /\ first.status = 200 /\ "timeSeries" \in first.keys) =>
    resp.timeSeries = first.timeSeries

\* C2: any two invocations of a nation-wide handler return the same
\* nationalTimeSeries and the same stats.
C2_NationalDeterminism ==
  (pc = "answered2" /\ NationalSucceeded /\ first.status = 200) =>
    (resp.timeSeries = first.timeSeries /\ resp.stats = first.stats)

\* C5: a returned series for [startYear, endYear], startYear <= endYear, has
\* 12 * (endYear - startYear + 1) points, the i-th dated the first day of the
\* i-th month of the range: strictly increasing, no duplicate, no gap.
C5_OnePointPerMonth ==
  ((PointSucceeded \/ NationalSucceeded) /\ resp.dateRange.startYear <= resp.dateRange.endYear) =>
    /\ Len(resp.timeSeries) = 12 * (resp.dateRange.endYear - resp.dateRange.startYear + 1)
    /\ \A i \in 1..Len(resp.timeSeries) :
         resp.timeSeries[i].date = Date(YearAt(resp.dateRange.startYear, i), MonthAt(i), 1)

\* C7: statistics over an empty or a one-point series report trendPercent 0
\* and trend 'stable', with no NaN and no infinity in mean, min, max, stdDev
\* and trendPercent.
C7_DegenerateSeriesStats ==
  (PointSucceeded /\ Len(resp.timeSeries) <= 1) =>
    /\ \A s \in {"mean", "min", "max", "stdDev", "trendPercent"} :
         s \in resp.stats.keys => resp.stats[s].k = "finite"
    /\ "trendPercent" \in resp.stats.keys => resp.stats.trendPercent = Finite(0)
    /\ "trend" \in resp.stats.keys => resp.stats.trend = "stable"

\* C8: in a response over a series of two points or more that reports a
\* trend, trend is 'stable' exactly when |trendPercent| < 2, 'increasing'
\* exactly when trendPercent >= 2, 'decreasing' exactly when
\* trendPercent <= -2, for the trendPercent the response reports.
C8_TrendMatchesReportedPercent ==
  (PointSucceeded /\ "trend" \in resp.stats.keys /\ Len(resp.timeSeries) >= 2) =>
    /\ resp.stats.trendPercent.k = "finite"
    /\ (resp.stats.trend = "stable") <=> (Abs(resp.stats.trendPercent.v) < 20)
    /\ (resp.stats.trend = "increasing") <=> (resp.stats.trendPercent.v >= 20)
    /\ (resp.stats.trend = "decreasing") <=> (resp.stats.trendPercent.v <= -20)

\* C9: the dateRange of a successful response has startYear <= endYear.
C9_DateRangeOrdered ==
  ((PointSucceeded \/ NationalSucceeded) /\ "dateRange" \in resp.keys) =>
    resp.dateRange.startYear <= resp.dateRange.endYear

\* C10: a successful per-point response carries stats with mean, min, max,
\* stdDev, trend and trendPercent, and insights, source and satellite.
C10_CompleteResponse ==
  PointSucceeded =>
    /\ {"stats", "insights", "source", "satellite"} \subseteq resp.keys
    /\ {"mean", "min", "max", "stdDev", "trend", "trendPercent"} \subseteq resp.stats.keys

\* handler h is a version of the function deployed as endpoint
\* C6: every value of a series generated for a parameter lies within the
\* [min, max] the parameter declares.
C6_ValuesWithinDeclaredRange ==
  PointSucceeded =>
    \A name \in DOMAIN PARAMETERS :
      Serves(req.handler, PARAMETERS[name].endpoint) =>
        \A i \in 1..Len(resp.timeSeries) :
          /\ resp.timeSeries[i].value >= PARAMETERS[name].min
          /\ resp.timeSeries[i].value <= PARAMETERS[name].max

\* the per-point handlers whose noise is seeded by the location
SeededPointHandlers == {"get-ndvi", "get-aerosol-index", "get-so2", "get-co", "get-no2"}

\* the series such a handler generates
SeededSeries(h, lat, lon, startYear, endYear) ==
  CASE h = "get-ndvi" -> generateDeterministicNDVI(lat, lon, startYear, endYear)
    [] h = "get-aerosol-index" -> generateAerosolIndex(lat, lon, startYear, endYear)
    [] h = "get-so2" -> generateSO2(lat, lon, startYear, endYear)
    [] h = "get-co" -> generateCO(lat, lon, startYear, endYear)
    [] h = "get-no2" -> generateNO2(lat, lon, startYear, endYear)

\* the region classification the generator of the handler gives a location
RegionOf(h, lat, lon) ==
  CASE h = "get-ndvi" -> <<NDVIRegion(lat, lon).name>>
    [] h = "get-aerosol-index" -> <<AerosolRegion(lat, lon)>>
    [] h = "get-so2" -> <<SO2IsIndustrial(lat, lon)>>
    [] h = "get-co" -> <<COIsUrban(lat, lon)>>
    [] h = "get-no2" -> <<NO2IsUrban(lat, lon)>>

\* C11: for a fixed parameter and non-empty range, every other in-bounds
\* location of the same region classification has a different location seed
\* and a series that differs from the one returned, while a second call for
\* the same location returns the same series.
C11_LocationsSeparated ==
  (PointSucceeded /\ req.handler \in SeededPointHandlers /\ Len(resp.timeSeries) > 0) =>
    LET lat == req.body.lat.v
        lon == req.body.lon.v
    IN /\ \A q \in GeoPoints :
            (/\ q # <<lat, lon>>
             /\ InsideBox(q[1], q[2])
             /\ RegionOf(req.handler, q[1], q[2]) = RegionOf(req.handler, lat, lon)) =>
              /\ locationSeed(q[1], q[2]) # locationSeed(lat, lon)
              /\ SeededSeries(req.handler, q[1], q[2], resp.dateRange.startYear, resp.dateRange.endYear)
                   # resp.timeSeries
       /\ pc = "answered2" => resp.timeSeries = first.timeSeries

\* the coordinates of the request fail the validation of a per-point handler
CoordinatesInvalid ==
  \/ req.body.lat.t # "number"
  \/ req.body.lon.t # "number"
  \/ ~InsideBox(req.body.lat.v, req.body.lon.v)

\* the series has a point for every month of the range it was asked for
SeriesComplete ==
  resp.dateRange.startYear <= resp.dateRange.endYear =>
    /\ Len(resp.timeSeries) = 12 * (resp.dateRange.endYear - resp.dateRange.startYear + 1)
    /\ \A i \in 1..Len(resp.timeSeries) :
         /\ resp.timeSeries[i].date.year = YearAt(resp.dateRange.startYear, i)
         /\ resp.timeSeries[i].date.month = MonthAt(i)

SuccessKind == resp.status = 200 /\ {"success", "timeSeries", "stats", "insights"} \subseteq resp.keys

ValidationErrorKind ==
  /\ resp.status = 400
  /\ "error" \in resp.keys
  /\ "timeSeries" \notin resp.keys
  /\ resp.timeSeries = <<>>
  /\ req.body.ok /\ CoordinatesInvalid

InternalErrorKind == resp.status = 500 /\ resp.keys = {"error"} /\ resp.timeSeries = <<>>

\* the statements of the validation precede the synthesis in the trace
ValidatedBeforeSynthesis ==
  \A i \in 1..Len(steps) :
    steps[i] = "synthesize" =>
      /\ i = 4 /\ steps[1] = "json" /\ steps[2] = "typeof" /\ steps[3] = "bounds"
      /\ req.body.ok /\ ~CoordinatesInvalid

\* the response is a success, a validation error or an internal error, and only one of them
ExactlyOneKind ==
  /\ SuccessKind \/ ValidationErrorKind \/ InternalErrorKind
  /\ ~(SuccessKind /\ ValidationErrorKind)
  /\ ~(SuccessKind /\ InternalErrorKind)
  /\ ~(ValidationErrorKind /\ InternalErrorKind)

\* C12: a per-point handler answers a non-OPTIONS request with exactly one
\* of: a success carrying the complete series with stats and insights, a 400
\* for invalid coordinates carrying no series, a 500 carrying only an error
\* message; the coordinates are validated before any synthesis starts.
C12_SuccessOrFailureNeverPartial ==
  (Answered /\ req.handler \in PointHandlers /\ req.method # "OPTIONS") =>
    /\ ExactlyOneKind
    /\ SuccessKind => SeriesComplete
    /\ ValidatedBeforeSynthesis

\* the series whose only value is the reported mean (none when the mean is NaN)
ReportedMean(stats) == IF stats.mean.k = "finite" THEN <<stats.mean.v>> ELSE <<>>

\* the trend sentence of get-ndvi, read off the reported trend and trendPercent
ReportedTrendInsight(stats) ==
  IF stats.trendPercent.k = "finite" /\ stats.trend \in {"increasing", "decreasing"}
  THEN InsightWith(IF stats.trend = "increasing" THEN "NDVI shows a upward trend" ELSE "NDVI shows a downward trend",
                   Abs(stats.trendPercent.v))
  ELSE Insight("NDVI remains relatively stable throughout the analysis period.")

\* the insights of a per-point handler, computed from the reported statistics alone
InsightsOfStats(h, stats) ==
  CASE h = "get-ndvi" -> <<ReportedTrendInsight(stats)>> \o Tail(NDVIInsights(ReportedMean(stats)))
    [] h = "get-ndvi@modis" -> MODISInsights(stats)
    [] h = "get-aerosol-index" -> AerosolInsights(ReportedMean(stats))
    [] h = "get-so2" -> SO2Insights(ReportedMean(stats))
    [] h \in {"get-co", "get-co@random"} -> COInsights(ReportedMean(stats))
    [] h \in {"get-no2", "get-no2@random"} -> NO2Insights(ReportedMean(stats))

BandRounding(h, p) == IF h \in {"get-no2", "get-no2@random"} THEN 2 * Magnitude(p.max) ELSE 2

\* min < value < max, and value - min equals max - value up to the rounding
BandAround(h, p) ==
  /\ p.hasBand
  /\ p.min <= p.value /\ p.value <= p.max /\ p.min < p.max
  /\ Abs((p.value - p.min) - (p.max - p.value)) <= BandRounding(h, p)

\* C20: every point of a per-point series carries min and max with
\* min <= value <= max, placed one positive half-width below and above the
\* value (value - min equals max - value up to the output rounding); every
\* point of a nation-wide series carries neither min nor max.
C20_UncertaintyBand ==
  /\ PointSucceeded =>
        \A i \in 1..Len(resp.timeSeries) : BandAround(req.handler, resp.timeSeries[i])
  /\ NationalSucceeded =>
        \A i \in 1..Len(resp.timeSeries) : ~resp.timeSeries[i].hasBand

\* a per-point response whose first point has a band of positive width, and
\* which was sent a second time
C20_Witness ==
  /\ PointSucceeded /\ pc = "answered2" /\ Len(resp.timeSeries) >= 12
  /\ resp.timeSeries[1].hasBand
  /\ resp.timeSeries[1].min < resp.timeSeries[1].value
  /\ resp.timeSeries[1].value < resp.timeSeries[1].max


\* the control panel waits for the backend, with a drawn polygon as the area
PolygonAnalysisInFlight ==
  /\ panel.isAnalyzing /\ pc \in {"received", "answered"}
  /\ panel.analyzing.geometry.type = "Polygon"
  /\ drawnShape.type = "polygon"

\* C13: in draw mode the target of a drawn polygon is the average of its
\* vertices (lat the mean of the vertex latitudes, lon the mean of the vertex
\* longitudes), and that point is the only location sent to the backend.
C13_PolygonCentroidSent ==
  PolygonAnalysisInFlight =>
    LET vertices == drawnShape.coordinates
    IN /\ req.body.lat.t = "number" /\ req.body.lon.t = "number"
       /\ req.body.lat.v * Len(vertices) = SumOf(vertices, 1)
       /\ req.body.lon.v * Len(vertices) = SumOf(vertices, 2)
       /\ calls >= 1


\* the point a form selects: none, or <<lat, lon>>
SelectedPoint(form, shape) ==
  IF form.inputMode = "draw" /\ shape.type = "polygon"
    THEN << <<RingMean(shape.geoJSON.geometry.coordinates, 2), RingMean(shape.geoJSON.geometry.coordinates, 1)>> >>
  ELSE IF form.inputMode = "draw" /\ shape.type = "marker" THEN shape.coordinates
  ELSE IF form.inputMode = "coordinates" /\ form.coordLat \in {"10", "30.3753"} /\ form.coordLng \in {"10", "69.3451"}
    THEN << <<parseFloat(form.coordLat).v, parseFloat(form.coordLng).v>> >>
  ELSE IF form.inputMode = "district" /\ form.selectedDistrict \in PAKISTAN_DISTRICTS
    THEN << <<form.selectedDistrict.lat, form.selectedDistrict.lon>> >>
  ELSE <<>>

\* a parameter is selected, an area is selected and its point lies inside the box
Analyzable(form, shape) ==
  /\ form.selectedParameter \in ParameterType
  /\ Len(SelectedPoint(form, shape)) = 1
  /\ InsideBox(SelectedPoint(form, shape)[1][1], SelectedPoint(form, shape)[1][2])

RejectionTitles == {"No indicator selected", "No area selected", "Location outside Pakistan"}

\* the point of a geometry that was analysed, as <<lat, lon>>
AnalysedPoint(geometry) ==
  IF geometry.type = "Polygon"
  THEN <<RingMean(geometry.coordinates, 2), RingMean(geometry.coordinates, 1)>>
  ELSE <<geometry.coordinates[1][2], geometry.coordinates[1][1]>>

\* a request of the panel is with the backend: it names a selected parameter's
\* endpoint and the point of a selected area, inside the box
InvokedOnlyWhenValid ==
  (panel.isAnalyzing /\ pc \in {"received", "answered"}) =>
    /\ panel.analyzing.selectedParameter \in ParameterType
    /\ Serves(req.handler, PARAMETERS[panel.analyzing.selectedParameter].endpoint)
    /\ panel.analyzing.geometry.type \in {"Point", "Polygon"}
    /\ req.method = "POST" /\ req.body.lat.t = "number" /\ req.body.lon.t = "number"
    /\ <<req.body.lat.v, req.body.lon.v>> = AnalysedPoint(panel.analyzing.geometry)
    /\ InsideBox(req.body.lat.v, req.body.lon.v)
    /\ calls >= 1

\* whatever is set in the panel: a press of Analyze that is not analyzable ends with a rejection toast
OtherwiseRejected ==
  \A form \in Forms :
    (pc = "idle" /\ ~Analyzable(form, drawnShape)) => LocalRejection(form, drawnShape).title \in RejectionTitles

\* a step that shows a rejection toast sends nothing and keeps the displayed result
RejectionKeepsResult ==
  (toast'.title \in RejectionTitles /\ toast' # toast) =>
    /\ calls' = calls /\ req' = req /\ pc' = pc /\ pc = "idle"
    /\ panel' = panel

\* a step that sends a request was not rejected
InvocationNotRejected == (calls' = calls + 1) => (toast' = NoToast /\ pc' = "received" /\ req' # NoRequest)

\* C14: the control panel invokes a backend handler only when a parameter is
\* selected, an area with parseable coordinates is selected and its point is
\* inside the bounding box; in every other case the analysis is rejected in
\* the panel: no backend call is made and the displayed result is left as it was.
C14_LocalValidation ==
  /\ [](InvokedOnlyWhenValid /\ OtherwiseRejected)
  /\ [][RejectionKeepsResult /\ InvocationNotRejected]_vars

\* an analysis was rejected in the panel while a result of an earlier one is displayed
C14_Witness ==
  /\ toast.title \in {"No area selected", "Location outside Pakistan"}
  /\ panel.analysisResult # NoResult /\ calls = 1 /\ pc = "idle"


\* the request to NASA CMR made for this response failed: fetch threw, or the reply was not ok
CMRFailed ==
  /\ pc = "answered" /\ req.handler = "get-ndvi@modis"
  /\ \E i \in 1..Len(steps) : steps[i] \in {"fetch throws", "fetch not_ok"}

\* the backend answered the control panel with a failure
BackendFailed == pc = "answered" /\ panel.isAnalyzing /\ (resp.status \notin 200..299 \/ "error" \in resp.keys)

\* C17: a failed backing call is surfaced with the upstream message, nothing
\* of it is stored or returned as a success, and it is not retried.  The
\* vegetation handler whose request to NASA CMR failed answers with an error;
\* the control panel whose backend invocation failed shows the message of the
\* backend, keeps the displayed result and sends nothing again.
C17_UpstreamFailureSurfaced ==
  /\ [](CMRFailed => (resp.status # 200 /\ "error" \in resp.keys /\ "timeSeries" \notin resp.keys))
  /\ [][BackendFailed =>
          /\ toast'.title = "Analysis failed" /\ toast'.description = resp.error
          /\ panel'.analysisResult = panel.analysisResult /\ ~panel'.isAnalyzing
          /\ calls' = calls /\ pc' = "idle" /\ req' = NoRequest]_vars


\* the last operation was a GeoJSON export
GeoJSONExported == download # NoFile /\ download.filename[4] = ".geojson"

\* the exported file wraps one Feature with the parameter id, stats and series of the displayed result
OneFeatureOfResult ==
  /\ download.content.type = "FeatureCollection"
  /\ Len(download.content.features) = 1
  /\ download.content.features[1].type = "Feature"
  /\ download.content.features[1].properties =
       [parameter |-> panel.analysisResult.parameter, stats |-> panel.analysisResult.stats,
        timeSeries |-> panel.analysisResult.timeSeries]

\* C18: the GeoJSON export of a displayed result is a FeatureCollection with
\* exactly one Feature, whose geometry is the drawn or selected geometry that
\* was analysed and whose properties embed the parameter id, the stats and
\* the time series of that result; the shapefile export produces no file.
C18_GeoJSONExport ==
  /\ GeoJSONExported =>
        /\ OneFeatureOfResult
        /\ download.content.features[1].geometry = panel.analysisResult.geometry
  /\ toast.title = "Shapefile Export" => download = NoFile


\* the records of a store, as a set
RecordsOf(store) == {store.docs[i] : i \in 1..Len(store.docs)}

IdsOf(store) == {d._id : d \in RecordsOf(store)}

\* every record the last reply handed to its caller belongs to that caller
ReadsOwnRecords == \A i \in 1..Len(answer.docs) : answer.docs[i].userId = answer.to

\* this step, made by answer'.to, leaves the records of the other users as they were
OthersUntouched(store, store2) ==
  \A d \in RecordsOf(store) : d.userId # answer'.to => d \in RecordsOf(store2)

\* every record this step creates belongs to the user who made the step
SavedAsOwn(store, store2) ==
  \A d \in RecordsOf(store2) : d._id \notin IdsOf(store) => d.userId = answer'.to

\* C15: every operation on the analysis records is scoped by user id: a caller
\* acting as user A never reads, modifies or deletes a record owned by another
\* user B, and every record saved by A is owned by A.
C15_ScopedByUser ==
  /\ []ReadsOwnRecords
  /\ [][/\ OthersUntouched(table, table') /\ OthersUntouched(mongo, mongo')
         /\ SavedAsOwn(table, table') /\ SavedAsOwn(mongo, mongo')]_vars


SaveActions == {"lib.saveAnalysis", "saveAnalysis", "insertOne"}

DeleteActions == {"lib.deleteAnalysis", "deleteAnalysis", "deleteOne"}

\* in this step a record of the store keeps all its fields, or is removed by a
\* delete; a record that appears is created by a save
RecordsImmutable(store, store2) ==
  /\ \A d \in RecordsOf(store) :
        IF d._id \in IdsOf(store2) THEN d \in RecordsOf(store2) ELSE answer'.action \in DeleteActions
  /\ \A d \in RecordsOf(store2) : d._id \notin IdsOf(store) => answer'.action \in SaveActions
  /\ answer'.action \notin (SaveActions \cup DeleteActions) => RecordsOf(store2) = RecordsOf(store)

\* C16: once an analysis record was created by a save, no operation changes
\* any of its fields: a record is created by an explicit save and removed by
\* an explicit delete, and every other operation leaves all records unchanged.
C16_RecordsImmutable ==
  [][RecordsImmutable(table, table') /\ RecordsImmutable(mongo, mongo')]_vars

\* the curve of a series before noise, in 1e-5: base level, seasonal component
\* and trend of the category the location falls in
VegetationCurve(lat, lon, startYear, date) ==
  LET region == NDVIRegion(lat, lon)
  IN Max2(-10000, Min2(90000, region.baseNDVI + NDVISeasonal(region.seasonalAmplitude, date.month)
                                + region.yearlyTrend * (date.year - startYear)))

\* urban before desert before the rest: base level and amplitude of one category
AerosolCategory(lat, lon) ==
  IF AerosolRegion(lat, lon).isUrban THEN [base |-> 180000, amplitude |-> 60000]
  ELSE IF AerosolRegion(lat, lon).isDesert THEN [base |-> 220000, amplitude |-> 120000]
  ELSE [base |-> 100000, amplitude |-> 60000]

AerosolCurve(lat, lon, date) ==
  LET category == AerosolCategory(lat, lon)
  IN Max2(0, Min2(500000, category.base
                            + RoundDiv((category.amplitude \div 10) * Sin(monthRadians(date.month) - 30), 1000)))

SO2Curve(lat, lon, date) ==
  Max2(1000, Min2(150000, (IF SO2IsIndustrial(lat, lon) THEN 35000 ELSE 12000)
                            + RoundDiv(8000 * Sin(monthRadians(date.month) + 180), 10000)))

COCurve(lat, lon, date) ==
  Max2(1500, Min2(8000, (IF COIsUrban(lat, lon) THEN 4200 ELSE 2800) + COSeasonal(date.month)))

\* the values of the series, held in 1e-4, stay within the noise amplitude of the curve
FollowsCurve(timeSeries, Curve(_), noise) ==
  \A i \in 1..Len(timeSeries) : Abs(10 * timeSeries[i].value - Curve(timeSeries[i].date)) <= noise + 10

\* the nitrogen dioxide series against the base level of the category: the
\* seasonal swing is a quarter of the base, the pandemic months lose 30 % of it,
\* the noise is 7.5 % of it; the value keeps five significant digits
NO2FollowsBase(timeSeries, lat, lon) ==
  LET base == IF NO2IsUrban(lat, lon) THEN 850000 ELSE 250000
  IN \A i \in 1..Len(timeSeries) :
       LET date == timeSeries[i].date
           curve == base + RoundDiv((base \div 400) * Sin(monthRadians(date.month) + 180), 100)
                      - (IF date.year = 2020 /\ date.month >= 3 /\ date.month <= 6 THEN (base * 3) \div 10 ELSE 0)
       IN Abs(timeSeries[i].value - Max2(10000, curve))
            <= ((base * 75) \div 1000) + Magnitude(timeSeries[i].value)

\* C21: region classification is total and priority-ordered. A vegetation
\* series follows the curve of exactly one of Indus plain, northern mountains,
\* arid west, southern, default, taken in that order; an aerosol, NO2, SO2 or
\* CO series follows the curve of the urban/industrial category whenever the
\* point lies in an urban rectangle, so that base level and seasonal amplitude
\* come from one and the same category.
C21_RegionClassification ==
  PointSucceeded =>
    LET lat == req.body.lat.v
        lon == req.body.lon.v
        startYear == resp.dateRange.startYear
    IN /\ Serves(req.handler, "get-ndvi") =>
            /\ NDVIRegion(lat, lon).name \in {"indus", "mountains", "balochistan", "sindh", "default"}
            /\ FollowsCurve(resp.timeSeries, LAMBDA date : VegetationCurve(lat, lon, startYear, date), 3000)
       /\ Serves(req.handler, "get-aerosol-index") =>
            FollowsCurve(resp.timeSeries, LAMBDA date : AerosolCurve(lat, lon, date), 20000)
       /\ Serves(req.handler, "get-so2") =>
            FollowsCurve(resp.timeSeries, LAMBDA date : SO2Curve(lat, lon, date), 3000)
       /\ Serves(req.handler, "get-co") =>
            FollowsCurve(resp.timeSeries, LAMBDA date : COCurve(lat, lon, date), 250)
       /\ Serves(req.handler, "get-no2") => NO2FollowsBase(resp.timeSeries, lat, lon)

\* what a month of the nation-wide vegetation series shows beyond base level,
\* seasonal component and trend, in 1e-5: the event adjustment and the noise
EventResidual(point, startYear) ==
  10 * point.value - (32000 + NationalNDVISeasonal(point.date.month) + 200 * (point.date.year - startYear))

\* the noise of that series is (r - 0.5) * 0.025; the value is rounded to 1e-4
NationalNDVINoise == 1250 + 10

\* C22: in the nation-wide vegetation series a flood year gets a negative
\* adjustment from July to October and a positive recovery adjustment only in
\* months after those flood months; a month outside the listed drought and
\* flood years gets no event adjustment.
C22_FloodYearAdjustment ==
  (NationalSucceeded /\ Serves(req.handler, "get-ndvi-pakistan-range")) =>
    \A i \in 1..Len(resp.timeSeries) :
      LET point == resp.timeSeries[i]
          residual == EventResidual(point, resp.dateRange.startYear)
      IN /\ (point.date.year \in floodYears /\ point.date.month \in 7..10) => residual < -NationalNDVINoise
         /\ (point.date.year \in floodYears /\ point.date.month < 7) => residual <= NationalNDVINoise
         /\ point.date.year \notin (droughtYears \cup floodYears) => Abs(residual) <= NationalNDVINoise

\* the handlers of the combustion-linked pollutants, per-point and nation-wide
CombustionEndpoints ==
  {"get-no2", "get-so2", "get-co", "get-no2-pakistan-range", "get-so2-pakistan-range", "get-co-pakistan-range"}

\* how far apart the noise and the rounding can put two draws of one month of a series
NoiseSpan(h, lat, lon) ==
  CASE Serves(h, "get-no2") -> (((IF NO2IsUrban(lat, lon) THEN 850000 ELSE 250000) * 15) \div 100) + 200
    [] Serves(h, "get-so2") -> 600 + 2
    [] Serves(h, "get-co") -> 50 + 2
    [] Serves(h, "get-no2-pakistan-range") -> 45000 + 200
    [] Serves(h, "get-so2-pakistan-range") -> 400 + 2
    [] Serves(h, "get-co-pakistan-range") -> 30 + 2

\* a series of a combustion-linked pollutant that holds 2019 and 2020
PandemicSeriesReturned ==
  /\ PointSucceeded \/ NationalSucceeded
  /\ \E endpoint \in CombustionEndpoints : Serves(req.handler, endpoint)
  /\ resp.dateRange.startYear = 2019
  /\ resp.dateRange.endYear >= 2020
  /\ Len(resp.timeSeries) = MonthCount(2019, resp.dateRange.endYear)

\* C23: in every NO2, SO2 and CO series, per-point and nation-wide, the months
\* March to June 2020 are lowered by the pandemic rule and no other month is
\* changed: against the same month of 2019, which differs by noise only, a
\* pandemic month is lower and any other month of 2020 is within the noise.
C23_PandemicRule ==
  PandemicSeriesReturned =>
    \A month \in 1..12 :
      LET before == resp.timeSeries[month].value
          during == resp.timeSeries[12 + month].value
      IN IF month \in 3..6
         THEN during < before
         ELSE Abs(during - before) <= NoiseSpan(req.handler, req.body.lat.v, req.body.lon.v)

\* the two series agree on every calendar month both of them hold
AgreeOnCommonMonths(a, b) ==
  \A i \in 1..Len(a) : \A j \in 1..Len(b) : a[i].date = b[j].date => a[i].value = b[j].value

\* C24: for a fixed parameter and location the value of a calendar month is
\* the same in every requested range that contains the month: the series
\* returned agrees with the series of any other range on their common months.
C24_RangeIndependent ==
  (PointSucceeded /\ req.handler \in SeededPointHandlers) =>
    \A startYear \in 2019..MaxYear : \A endYear \in startYear..MaxYear :
      AgreeOnCommonMonths(resp.timeSeries,
                          SeededSeries(req.handler, req.body.lat.v, req.body.lon.v, startYear, endYear))

\* the record a save has just added to the table
SavedRecord == table'.docs[Len(table'.docs)]

\* C25: the record written by Save to History has the parameter, geometry,
\* geometryType, startDate and endDate of the analysis run that produced its
\* results, whatever the user changed between the end of that run and the save.
C25_SavedSnapshotOfRun ==
  [][Len(table'.docs) > Len(table.docs) =>
       /\ SavedRecord.results.timeSeries = panel.analysisResult.timeSeries
       /\ SavedRecord.parameter = panel.analysisResult.parameter
       /\ SavedRecord.geometry = panel.analysisResult.geometry
       /\ SavedRecord.geometryType = panel.analysisResult.geometryType
       /\ SavedRecord.startDate = panel.analysisResult.startYear
       /\ SavedRecord.endDate = panel.analysisResult.endYear]_vars

(***************************************************************************)
(* The nation-wide widget of the control panel (PakistanNDVIWidget).  The  *)
(* panel mounts it once a parameter is selected; every change of the       *)
(* parameter runs fetchData, which awaits the backend and then writes the  *)
(* state of the widget.                                                    *)
(***************************************************************************)
getPakistanRangeEndpoint(parameter) ==
  CASE parameter = "NDVI" -> "get-ndvi-pakistan-range"
    [] parameter = "AerosolIndex" -> "get-aerosol-pakistan-range"
    [] parameter = "NO2" -> "get-no2-pakistan-range"
    [] parameter = "SO2" -> "get-so2-pakistan-range"
    [] parameter = "CO" -> "get-co-pakistan-range"
    [] OTHER -> "get-ndvi-pakistan-range"

\* supabase.functions.invoke(endpoint, { body: {} })
WidgetRequest(endpoint) ==
  [handler |-> endpoint, method |-> "POST", body |-> Body(Undefined, Undefined, Undefined, Undefined)]

\* the responses the function deployed under the name of an endpoint can give to the widget
InvokeNational(endpoint) ==
  LET r == WidgetRequest(endpoint)
  IN CASE endpoint = "get-ndvi-pakistan-range" ->
            {serve_get_ndvi_pakistan_range(r).resp}
              \cup {serve_get_ndvi_pakistan_range_random(r, e).resp : e \in Entropy}
       [] endpoint = "get-aerosol-pakistan-range" ->
            {serve_get_aerosol_pakistan_range(r).resp}
              \cup {serve_get_aerosol_pakistan_range_random(r, e).resp : e \in Entropy}
       [] endpoint = "get-no2-pakistan-range" ->
            {serve_get_no2_pakistan_range(r).resp}
              \cup {serve_get_no2_pakistan_range_random(r, e).resp : e \in Entropy}
       [] endpoint = "get-so2-pakistan-range" -> {serve_get_so2_pakistan_range(r).resp}
       [] endpoint = "get-co-pakistan-range" ->
            {serve_get_co_pakistan_range_random(r, e).resp : e \in Entropy}

\* the points of a year averaged: Number((sum / values.length).toFixed(4)), keyed by the year
YearlyAverages(timeSeries) ==
  [year \in {timeSeries[i].date.year : i \in 1..Len(timeSeries)} |->
     LET values == Values(SelectSeq(timeSeries, LAMBDA p : p.date.year = year))
     IN RoundDiv(SumSeq(values), Len(values))]

\* what fetchData writes from a response: satellite, yearlyData, stats and insights
WidgetData(data) ==
  [satellite |-> data.satellite,
   yearlyData |-> YearlyAverages(data.timeSeries),
   stats |-> data.stats,
   insights |-> data.insights]

\* per parameter, what a response to the widget's request for it makes the widget show
NationalData == [p \in ParameterType |-> {WidgetData(d) : d \in InvokeNational(getPakistanRangeEndpoint(p))}]

\* fetchData up to its await: setIsLoading(true), setError(null), invoke
fetchData(w, parameter) ==
  [w EXCEPT !.selectedParameter = parameter, !.isLoading = TRUE, !.error = "",
            !.started = w.started + 1,
            !.fetches = w.fetches \cup {[id |-> w.started + 1, parameter |-> parameter]}]

\* the Select of the panel: setSelectedParameter(v); the effect on [selectedParameter] runs fetchData
SelectParameter(parameter) ==
  /\ parameter # widget.selectedParameter
  /\ widget.started < MaxFetches
  /\ widget' = fetchData(widget, parameter)
  /\ UNCHANGED <<req, resp, first, steps, pc, clientVars, storeVars, conn>>

\* fetchData after its await, with a response: the setters, then finally setIsLoading(false)
fetchData_resumed(fetch, data) ==
  /\ fetch \in widget.fetches
  /\ widget' = [widget EXCEPT !.satellite = data.satellite, !.yearlyData = data.yearlyData,
                              !.stats = data.stats, !.insights = data.insights,
                              !.isLoading = FALSE, !.fetches = widget.fetches \ {fetch}]
  /\ UNCHANGED <<req, resp, first, steps, pc, clientVars, storeVars, conn>>

\* fetchData after its await, with fnError: catch sets the error, finally setIsLoading(false)
fetchData_failed(fetch) ==
  /\ fetch \in widget.fetches
  /\ widget' = [widget EXCEPT !.error = "Failed to fetch data", !.isLoading = FALSE,
                              !.fetches = widget.fetches \ {fetch}]
  /\ UNCHANGED <<req, resp, first, steps, pc, clientVars, storeVars, conn>>

WidgetNext ==
  \/ \E parameter \in ParameterType : SelectParameter(parameter)
  \/ \E fetch \in widget.fetches : \E data \in NationalData[fetch.parameter] : fetchData_resumed(fetch, data)
  \/ \E fetch \in widget.fetches : fetchData_failed(fetch)

WidgetSpec == Init /\ [][WidgetNext]_vars

\* the widget has stopped loading and renders its data card
WidgetShowsData == widget.selectedParameter # "" /\ ~widget.isLoading /\ widget.error = ""

Shown(w) == [satellite |-> w.satellite, yearlyData |-> w.yearlyData, stats |-> w.stats, insights |-> w.insights]

\* C26: once the nation-wide widget has stopped loading, the yearly data, stats,
\* insights and satellite it shows are those of a response for the selected
\* parameter, in whatever order the responses of the requests arrive.
C26_WidgetShowsSelected ==
  WidgetShowsData => Shown(widget) \in NationalData[widget.selectedParameter]

(***************************************************************************)
(* The control panel with a backend that answers: a function that has      *)
(* received a request returns its response, and the awaiting handleAnalyze *)
(* is resumed once invoke has settled.                                     *)
(***************************************************************************)
\* the function that received the request of the panel responds
PanelServed ==
  \/ GetNdvi
  \/ GetNdviModis
  \/ GetAerosolIndex
  \/ GetSo2
  \/ GetCo
  \/ GetCoRandom
  \/ GetNo2
  \/ GetNo2Random

\* the Analyze button and the backend, without the map and the exports
AnalysisNext ==
  \/ \E form \in Forms : handleAnalyze(form)
  \/ handleAnalyze_fetchError
  \/ handleAnalyze_resumed
  \/ Unmount
  \/ PanelServed

\* a step of PanelServed, told by what it does to the exchange: the request is answered
FunctionResponds == pc = "received" /\ pc' = "answered"

FairPanelSpec ==
  Init /\ [][AnalysisNext]_vars /\ WF_pc(FunctionResponds) /\ WF_vars(handleAnalyze_resumed)

\* a request of the Analyze button is with the backend
AnalysisInFlight == pc # "idle"

\* C27: every started analysis ends with isAnalyzing reset to false, whether the
\* backend call succeeds, returns an error payload or fails; a backend call is
\* started only while no analysis is in flight, and one is in flight exactly
\* while isAnalyzing is true.
C27_AnalysisEnds ==
  /\ panel.isAnalyzing ~> ~panel.isAnalyzing
  /\ [](AnalysisInFlight <=> panel.isAnalyzing)
  /\ [][calls' > calls => ~AnalysisInFlight /\ ~panel.isAnalyzing /\ panel'.isAnalyzing]_vars

\* analyses have ended in failure and in success (a result is shown after a later failure)
C27_Witness ==
  /\ ~panel.isAnalyzing
  /\ calls = 2
  /\ toast.title = "Analysis failed"
  /\ panel.analysisResult # NoResult

(***************************************************************************)
(* The seeds of the two noise draws of a month of a per-point series       *)
(***************************************************************************)
\* const seed = locationSeed + year * 13 + month * 7: the seed of the value draw
valueSeed(lat, lon, date) == SeedPlus(locationSeed(lat, lon), date.year * 13 + date.month * 7)

\* seededRandom(seed + 1): the seed of the uncertainty-width draw
uncertaintySeed(lat, lon, date) == SeedPlus(valueSeed(lat, lon, date), 1)

\* a series of one of the two generators that draw the width of the band
BandSeriesReturned == PointSucceeded /\ req.handler \in {"get-ndvi", "get-aerosol-index"}

\* C28: within one per-point series the seed of the uncertainty-width draw of a
\* month differs from the seed of the value draw of that month and of every other
\* month, and the value-draw seeds of distinct months are pairwise distinct.
C28_DistinctSeeds ==
  BandSeriesReturned =>
    LET lat == req.body.lat.v
        lon == req.body.lon.v
        dates == {resp.timeSeries[i].date : i \in 1..Len(resp.timeSeries)}
    IN \A d1 \in dates : \A d2 \in dates :
         /\ uncertaintySeed(lat, lon, d1) # valueSeed(lat, lon, d2)
         /\ d1 # d2 => valueSeed(lat, lon, d1) # valueSeed(lat, lon, d2)

(***************************************************************************)
(* The map of the dashboard page.  The page hands LeafletMap the function  *)
(* handleShapeDrawn, which is a new function at every render of the page,  *)
(* and the effect of LeafletMap that creates the map depends on it: after  *)
(* a render of the page the effect removes the map and creates a new one.  *)
(***************************************************************************)
\* useEffect(..., [onShapeDrawn]): cleanup map.remove(), then a new map with a new feature group
LeafletMap_effect ==
  /\ ~drawnItems.current
  /\ drawnItems' = NoLayers
  /\ UNCHANGED <<req, resp, first, steps, pc, panel, drawnShape, calls, toast, download, storeVars, asideVars>>

MapNext ==
  \/ \E latlngs \in DrawnPolygons : DrawCreated(latlngs)
  \/ DrawDeleted
  \/ LeafletMap_effect
  \/ AnalysisNext

MapSpec == Init /\ [][MapNext]_vars

\* every vertex of a shape, as <<lat, lon>>, is inside the bounding box
ShapeInsideBox(shape) ==
  \A i \in 1..Len(shape.coordinates) : InsideBox(shape.coordinates[i][1], shape.coordinates[i][2])

\* the marker of an entry of the district table, whose content is taken as given
DistrictMarker(shape) == \E d \in PAKISTAN_DISTRICTS : shape = MarkerShape(d.lat, d.lon)

\* C29: a shape held as drawnShape lies inside the Pakistan bounding box and is
\* the one shape on the map; the map never holds more than one shape.
C29_ShapeInsideAndOnMap ==
  /\ Len(drawnItems.layers) <= 1
  /\ drawnShape # NoShape =>
       /\ ShapeInsideBox(drawnShape) \/ DistrictMarker(drawnShape)
       /\ drawnItems.layers = <<drawnShape>>

(***************************************************************************)
(* The connection of the mongodb function.  `client` is module state of    *)
(* the function: the requests one instance serves concurrently share it.   *)
(* A request is a getProfile of a user; it runs up to getMongoClient, and  *)
(* once it holds a client it runs its operation and responds.              *)
(*   client: "null", "connecting" (assigned, connect awaited), "connected",*)
(*           "failed" (assigned, connect rejected)                         *)
(***************************************************************************)
\* a request inside getMongoClient, awaiting client.connect
Connecting(id, userId) == [id |-> id, userId |-> userId, pc |-> "connecting", client |-> "connecting"]

\* a request getMongoClient has returned to: client is the state of the client at the return
Handed(id, userId, client) == [id |-> id, userId |-> userId, pc |-> "handed", client |-> client]

\* getMongoClient up to its await or its return
getMongoClient(c, userId) ==
  IF c.client = "null"
  THEN [c EXCEPT !.client = "connecting", !.served = c.served + 1,
                 !.requests = c.requests \cup {Connecting(c.served + 1, userId)}]
  ELSE [c EXCEPT !.served = c.served + 1,
                 !.requests = c.requests \cup {Handed(c.served + 1, userId, c.client)}]

ConnStep == UNCHANGED <<req, resp, first, steps, pc, clientVars, table, mongo, widget>>

\* serve: a POST with MONGODB_URI set, up to const mongoClient = await getMongoClient()
serve_mongodb(userId) ==
  /\ conn.served < MaxRequests
  /\ conn' = getMongoClient(conn, userId)
  /\ UNCHANGED answer
  /\ ConnStep

\* await client.connect(MONGODB_URI) resolves: getMongoClient returns the client
connect_resolved(r) ==
  /\ r \in conn.requests /\ r.pc = "connecting"
  /\ conn' = [conn EXCEPT !.client = "connected",
                          !.requests = (conn.requests \ {r}) \cup {Handed(r.id, r.userId, "connected")}]
  /\ UNCHANGED answer
  /\ ConnStep

\* await client.connect(MONGODB_URI) rejects: the catch of serve answers 500; client stays assigned
connect_rejected(r) ==
  /\ r \in conn.requests /\ r.pc = "connecting"
  /\ conn' = [conn EXCEPT !.client = "failed", !.requests = conn.requests \ {r}]
  /\ answer' = Reply(r.userId, "error", <<>>)
  /\ ConnStep

\* handleAction with the client handed: the operation needs the connection to be there by now
serve_responded(r) ==
  /\ r \in conn.requests /\ r.pc = "handed"
  /\ conn' = [conn EXCEPT !.requests = conn.requests \ {r}]
  /\ answer' = IF conn.client = "connected"
               THEN LET i == FirstMatch(mongo.docs, [_id |-> 0, userId |-> r.userId], 1)
                    IN Reply(r.userId, "getProfile", IF i = 0 THEN <<>> ELSE <<mongo.docs[i]>>)
               ELSE Reply(r.userId, "error", <<>>)
  /\ ConnStep

ConnNext ==
  \/ \E userId \in Users : serve_mongodb(userId)
  \/ \E r \in conn.requests : connect_resolved(r)
  \/ \E r \in conn.requests : connect_rejected(r)
  \/ \E r \in conn.requests : serve_responded(r)

ConnSpec == Init /\ [][ConnNext]_vars

\* C30: under any interleaving of concurrent requests getMongoClient hands a
\* request only a client whose connect has completed successfully; after a
\* failed connect a later request is not handed the unconnected client.
C30_HandedClientConnected ==
  \A r \in conn.requests : r.pc = "handed" => r.client = "connected"

====
